---- MODULE Spec2Model ----
(***************************************************************************)
(* State-machine model of the pixel-collab backend (Go, Taubyte runtime).  *)
(* The repository holds several variants of the same engine; each variant  *)
(* the properties below talk about is modelled from its own source file.   *)
(*                                                                         *)
(* Strings that the code formats or parses (store keys, room names,        *)
(* colours) are sequences of one-character strings, so that Sprintf and    *)
(* Sscanf are computed and not assumed to be inverse to each other.        *)
(* A canvas grid is kept as the function from the cells that were assigned *)
(* to their value; every other cell of the CanvasHeight x CanvasWidth grid *)
(* holds the background.                                                   *)
(***************************************************************************)
EXTENDS FiniteSets, Integers, Sequences, TLC

VARIABLES
    canvasDB,            \* part_000: database "/canvas", key -> stored Pixel
    chatDB,              \* part_000: database "/chat", key -> stored ChatMessage
    blobDB,              \* part_004: database "/canvas", "room:<room>" -> stored grid
    processedBatchIds,   \* var processedBatchIds (map batchId -> timestamp)
    processedMessageIds, \* var processedMessageIds (map messageId -> timestamp)
    now,                 \* the wall clock (seconds in part_000, milliseconds elsewhere)
    inflight,            \* the delivery or request the runtime hands to a handler next
    tasks,               \* part_004: the onPixelUpdate invocations under way
    last,                \* what the handler invocation that finished last did
    usersDB,             \* database "/users", user id -> stored User
    canvasCache,         \* var canvasCache, cacheValid
    olderMessages        \* database "/chat": the number of further stored messages, all
                         \* of them older than the ones chatDB holds

vars == <<canvasDB, chatDB, blobDB, processedBatchIds, processedMessageIds, now,
          inflight, tasks, last,
         usersDB, canvasCache, olderMessages>>

-----------------------------------------------------------------------------
(* Program constants                                                       *)

CanvasWidth == 90
CanvasHeight == 90
MAX_PROCESSED_BATCHES == 1000
MAX_PROCESSED_MESSAGES == 1000
EvictCount == 200

\* part_001, part_002, backend.go (third variant)
CanvasWidth100 == 100
CanvasHeight100 == 100
MaxMessages == 100
UserTimeout == 30000

(* Bounds of the model                                                     *)

MaxBatch == 2
Headroom == 2

\* the clock advances at most this many seconds
MaxTicks == 1

\* deliveries of pixels stop when a user has placed this many
MaxPlaced == 2

\* most chat messages the model stores under one key
MaxChat == 2

\* most pieces an input text of sanitizeMessage is made of
MaxPieces == 3

-----------------------------------------------------------------------------
(* Strings                                                                 *)

Digit == <<"0", "1", "2", "3", "4", "5", "6", "7", "8", "9">>

DigitValue(c) == CHOOSE d \in 0..9 : Digit[d + 1] = c

IsDigit(c) == \E d \in 0..9 : Digit[d + 1] = c

RECURSIVE ItoaNat(_)
ItoaNat(n) == IF n < 10 THEN <<Digit[n + 1]>>
              ELSE ItoaNat(n \div 10) \o <<Digit[(n % 10) + 1]>>

\* fmt verb %d
Itoa(n) == IF n < 0 THEN <<"-">> \o ItoaNat(0 - n) ELSE ItoaNat(n)

HasPrefix(s, p) == Len(s) >= Len(p) /\ SubSeq(s, 1, Len(p)) = p

WHITE == <<"#", "f", "f", "f", "f", "f", "f">>
RED == <<"#", "f", "f", "0", "0", "0", "0">>
BLUE == <<"#", "0", "0", "0", "0", "f", "f">>

DEFAULT_ROOM == <<"d", "e", "f", "a", "u", "l", "t">>

\* fmt.Sprintf("/%s/", room)
RoomPrefix(room) == <<"/">> \o room \o <<"/">>

\* fmt.Sprintf("/%s/%d:%d", room, x, y)
PixelKey(room, x, y) == RoomPrefix(room) \o Itoa(x) \o <<":">> \o Itoa(y)

\* The characters of Unicode's White_Space property (fmt's isSpace table and
\* unicode.IsSpace) other than the newline.  A character TLA+ has no escape
\* for is written as its code point.
SpaceChars ==
    {" ", "\t", "\r", "\f", "U+000B", "U+0085", "U+00A0", "U+1680",
     "U+2000", "U+2001", "U+2002", "U+2003", "U+2004", "U+2005", "U+2006",
     "U+2007", "U+2008", "U+2009", "U+200A", "U+2028", "U+2029", "U+202F",
     "U+205F", "U+3000"}

\* len(c): the bytes of the UTF-8 encoding of a character.  "U+FFFD" stands
\* for one byte that is no character (what a cut through a character leaves,
\* and what it decodes to), so it counts one byte.
Utf8Len(c) ==
    IF c \in {"U+0085", "U+00A0"} THEN 2
    ELSE IF c \in SpaceChars \ {" ", "\t", "\r", "\f", "U+000B"} THEN 3
    ELSE 1

RECURSIVE ByteLen(_)
\* len(s) of a Go string: its bytes
ByteLen(s) ==
    IF Len(s) = 0 THEN 0
    ELSE IF Len(s) = 1 THEN Utf8Len(s[1])
    ELSE LET h == Len(s) \div 2
         IN  ByteLen(SubSeq(s, 1, h)) + ByteLen(SubSeq(s, h + 1, Len(s)))

\* s[:n] of a Go string: its first n bytes.  A character the cut goes
\* through leaves each of its bytes before the cut as a byte that is no
\* character, one "U+FFFD" apiece, so that len(s[:n]) = n.
ByteCut(s, n) ==
    LET fit == {k \in 0..Len(s) : k <= n /\ ByteLen(SubSeq(s, 1, k)) <= n}
        k == CHOOSE m \in fit : \A other \in fit : other <= m
        whole == SubSeq(s, 1, k)
    IN  whole \o (IF k < Len(s) THEN [i \in 1..(n - ByteLen(whole)) |-> "U+FFFD"] ELSE <<>>)

\* fmt's SkipSpace under Sscanf (nlIsSpace is false) from position i on:
\* spaces are passed over, a newline is the error "unexpected newline"
RECURSIVE SkipSpace(_, _)
SkipSpace(s, i) ==
    IF i > Len(s) THEN [err |-> FALSE, next |-> i]
    ELSE IF s[i] = "\n" THEN [err |-> TRUE, next |-> i]
    ELSE IF s[i] \in SpaceChars THEN SkipSpace(s, i + 1)
    ELSE [err |-> FALSE, next |-> i]

\* end of the run of decimal digits of s that starts at position i
RECURSIVE DigitsEnd(_, _)
DigitsEnd(s, i) == IF i <= Len(s) /\ IsDigit(s[i]) THEN DigitsEnd(s, i + 1) ELSE i

RECURSIVE DecimalValue(_)
DecimalValue(d) == IF Len(d) = 0 THEN 0
                   ELSE 10 * DecimalValue(SubSeq(d, 1, Len(d) - 1)) + DigitValue(d[Len(d)])

RECURSIVE StripZeros(_)
StripZeros(d) == IF Len(d) > 1 /\ d[1] = "0" THEN StripZeros(Tail(d)) ELSE d

\* the decimal digits of 2^(bitSize-1) - 1, and of 2^(bitSize-1) for a
\* negative number
IntLimit(bitSize, negative) ==
    IF bitSize = 32
    THEN <<"2", "1", "4", "7", "4", "8", "3", "6", "4">> \o (IF negative THEN <<"8">> ELSE <<"7">>)
    ELSE <<"9", "2", "2", "3", "3", "7", "2", "0", "3", "6", "8", "5", "4", "7", "7", "5", "8", "0">>
            \o (IF negative THEN <<"8">> ELSE <<"7">>)

\* the digit run d, read as a number, is at most the digit run limit
DigitsAtMost(d, limit) ==
    LET e == StripZeros(d)
    IN  \/ Len(e) < Len(limit)
        \/ /\ Len(e) = Len(limit)
           /\ \/ e = limit
              \/ \E i \in DOMAIN e :
                    /\ SubSeq(e, 1, i - 1) = SubSeq(limit, 1, i - 1)
                    /\ DigitValue(e[i]) < DigitValue(limit[i])

\* size of Go's int in the build: 64 in a native build (part_006 is built
\* for !wasm) and in Go's wasm port, 32 under a wasm32 target.  The numbers
\* the two treat differently are outside every grid.
IntBits == 64

\* fmt scanning of one %d at position i into an integer of bitSize bits
\* (scanOne and scanInt): spaces are skipped, then come an optional sign and
\* a non-empty run of decimal digits; strconv.ParseInt and the width test
\* fail on a number outside the type's range.  next is the first position
\* that was not consumed.  val is exact for a number of 32 bits; a scanned
\* number beyond that stands as the nearest number TLC can compute with.
ScanInt(s, i, bitSize) ==
    LET sp == SkipSpace(s, i)
        h == sp.next
        negative == h <= Len(s) /\ s[h] = "-"
        j == IF h <= Len(s) /\ s[h] \in {"+", "-"} THEN h + 1 ELSE h
        k == DigitsEnd(s, j)
        d == StripZeros(SubSeq(s, j, k - 1))
        ok == ~sp.err /\ k > j /\ DigitsAtMost(d, IntLimit(bitSize, negative))
    IN  [ok |-> ok,
         val |-> IF ~ok THEN 0
                 ELSE IF DigitsAtMost(d, IntLimit(32, FALSE))
                 THEN (IF negative THEN 0 - DecimalValue(d) ELSE DecimalValue(d))
                 ELSE (IF negative THEN 0 - 2147483647 ELSE 2147483647),
         next |-> k]

\* n, err := fmt.Sscanf(coordPart, "%d:%d", &x, &y); ok stands for n == 2 && err == nil.
\* The colon has to follow the first number at once.  Input that follows the
\* second number is left unread and is no error.
Sscanf(coordPart) ==
    LET a == ScanInt(coordPart, 1, IntBits)
        colon == a.ok /\ a.next <= Len(coordPart) /\ coordPart[a.next] = ":"
        b == ScanInt(coordPart, a.next + 1, IntBits)
    IN  IF colon /\ b.ok THEN [ok |-> TRUE, x |-> a.val, y |-> b.val]
        ELSE [ok |-> FALSE, x |-> 0, y |-> 0]

-----------------------------------------------------------------------------
(* Grids                                                                   *)

EmptyGrid == <<>>

InBounds(x, y) == x >= 0 /\ x < CanvasWidth /\ y >= 0 /\ y < CanvasHeight

\* canvas[y][x] of a grid
At(grid, x, y) == IF <<x, y>> \in DOMAIN grid THEN grid[<<x, y>>] ELSE WHITE

\* canvas[y][x] = color
SetCell(grid, x, y, color) ==
    [c \in (DOMAIN grid) \cup {<<x, y>>} |-> IF c = <<x, y>> THEN color ELSE grid[c]]

\* two grids hold the same colour in every cell
SameGrid(g, h) == \A c \in (DOMAIN g) \cup (DOMAIN h) : At(g, c[1], c[2]) = At(h, c[1], c[2])

\* A stored canvas value that json.Unmarshal rejects; it stands for any such
\* bytes.  The readers have a branch for it, while no handler stores one.
CORRUPT == <<0 - 1, 0 - 1>> :> "corrupt"

\* json.Unmarshal(data, &canvas) returns no error
Parses(data) == data # CORRUPT

\* Stored canvas values that parse as a grid smaller than the canvas: the
\* array "[]", and a grid of one row with one cell
EMPTY_ARRAY == <<0 - 1, 0 - 1>> :> "[]"
SMALL_GRID == <<0 - 1, 0 - 1>> :> "[[#ffffff]]"

\* len(canvas), and len(canvas[y]) of its rows
GridHeight(canvas) ==
    IF <<0 - 1, 0 - 1>> \notin DOMAIN canvas THEN CanvasHeight
    ELSE IF canvas[<<0 - 1, 0 - 1>>] = "[]" THEN 0 ELSE 1
GridWidth(canvas) ==
    IF <<0 - 1, 0 - 1>> \notin DOMAIN canvas THEN CanvasWidth
    ELSE IF canvas[<<0 - 1, 0 - 1>>] = "[]" THEN 0 ELSE 1

\* if pixel.Y < len(canvas) && pixel.X < len(canvas[pixel.Y]) { canvas[..] = pixel }
SetCellInside(canvas, x, y, color) ==
    IF <<0 - 1, 0 - 1>> \in DOMAIN canvas /\ (y >= GridHeight(canvas) \/ x >= GridWidth(canvas))
    THEN canvas
    ELSE SetCell(canvas, x, y, color)

-----------------------------------------------------------------------------
(* Deduplication (part_000 lines 44-115, part_004 lines 44-121)            *)
(*                                                                         *)
(* A processed-id map is [ids, others]: ids is the map restricted to the   *)
(* identifiers that deliveries of the model carry, others is the number of *)
(* its entries for other identifiers (never looked up again, so only their *)
(* number matters).  len(map) is the sum of both.                          *)

B1 == <<"b", "1">>
B2 == <<"b", "2">>
B3 == <<"b", "3">>
M1 == <<"m", "1">>
M2 == <<"m", "2">>

EmptyMap == [ids |-> <<>>, others |-> 0]

MapLen(m) == Cardinality(DOMAIN m.ids) + m.others

Min(a, b) == IF a < b THEN a ELSE b

\* the cleanup loop with the test `count > 200`: one entry more is deleted
Evictions_OneTooMany(m) ==
    {e \in [ids : SUBSET (DOMAIN m.ids), others : 0..Min(m.others, EvictCount + 1)] :
        Cardinality(e.ids) + e.others = Min(MapLen(m), EvictCount + 1)}

\* The outcomes of the cleanup loop `for id := range m { delete(m, id); count++;
\* if count >= 200 { break } }`: Go leaves the iteration order of a map
\* unspecified, so any EvictCount entries may be the ones deleted.
Evictions(m) ==
    {e \in [ids : SUBSET (DOMAIN m.ids), others : 0..Min(m.others, EvictCount)] :
        Cardinality(e.ids) + e.others = Min(MapLen(m), EvictCount)}

Evict(m, e) ==
    [ids |-> [k \in (DOMAIN m.ids) \ e.ids |-> m.ids[k]], others |-> m.others - e.others]

\* m[id] = timestamp
MapPut(m, id, timestamp) ==
    [m EXCEPT !.ids = [k \in (DOMAIN m.ids) \cup {id} |-> IF k = id THEN timestamp ELSE m.ids[k]]]

\* The maps the call can leave behind after it recorded the id
AfterRecord(m, limit) ==
    IF MapLen(m) > limit THEN {Evict(m, e) : e \in Evictions(m)} ELSE {m}

\* isBatchProcessed without the early return for the empty batchId
isBatchProcessed_EmptyRecorded(m, batchId, timestamp) ==
    IF batchId \in DOMAIN m.ids THEN {[ret |-> TRUE, map |-> m]}
    ELSE {[ret |-> FALSE, map |-> n] :
            n \in AfterRecord(MapPut(m, batchId, timestamp), MAX_PROCESSED_BATCHES)}

\* func isBatchProcessed(batchId string, timestamp int64) bool, as the set of
\* its outcomes [ret, map] on the map m
isBatchProcessed(m, batchId, timestamp) ==
    IF batchId = <<>> THEN {[ret |-> FALSE, map |-> m]}
    ELSE IF batchId \in DOMAIN m.ids THEN {[ret |-> TRUE, map |-> m]}
    ELSE {[ret |-> FALSE, map |-> n] :
            n \in AfterRecord(MapPut(m, batchId, timestamp), MAX_PROCESSED_BATCHES)}

\* isMessageProcessed that stores the timestamp of a repeated delivery
isMessageProcessed_Refresh(m, messageId, timestamp) ==
    IF messageId = <<>> THEN {[ret |-> FALSE, map |-> m]}
    ELSE IF messageId \in DOMAIN m.ids
         THEN {[ret |-> TRUE, map |-> MapPut(m, messageId, timestamp)]}
    ELSE {[ret |-> FALSE, map |-> n] :
            n \in AfterRecord(MapPut(m, messageId, timestamp), MAX_PROCESSED_MESSAGES)}

\* func isMessageProcessed(messageId string, timestamp int64) bool
isMessageProcessed(m, messageId, timestamp) ==
    IF messageId = <<>> THEN {[ret |-> FALSE, map |-> m]}
    ELSE IF messageId \in DOMAIN m.ids THEN {[ret |-> TRUE, map |-> m]}
    ELSE {[ret |-> FALSE, map |-> n] :
            n \in AfterRecord(MapPut(m, messageId, timestamp), MAX_PROCESSED_MESSAGES)}

-----------------------------------------------------------------------------
(* Store and transport                                                     *)

\* db.List(prefix): the stored keys that start with the prefix
ListKeys(db, prefix) == {k \in DOMAIN db : HasPrefix(k, prefix)}

\* the orders in which db.List can return a set of keys
Orders(keys) == {o \in [1..Cardinality(keys) -> keys] : \A i, j \in DOMAIN o : o[i] = o[j] => i = j}

\* db.Put(key, value)
DbPut(db, key, value) == [k \in (DOMAIN db) \cup {key} |-> IF k = key THEN value ELSE db[k]]

\* db.Delete(key)
DbDelete(db, key) == [k \in (DOMAIN db) \ {key} |-> db[k]]

None == [kind |-> "none"]

NoTasks == [t \in {1, 2} |-> [pc |-> "idle"]]

\* var canvasCache [][]Pixel; var cacheValid bool (false at start)
NoCache == [valid |-> FALSE, canvas |-> <<>>]

\* room := pixelBatch.Room; if room == "" { room = "default" }
EffectiveRoom(room) == IF room = <<>> THEN DEFAULT_ROOM ELSE room

SeqsUpTo(S, n) == UNION {[1..k -> S] : k \in 0..n}

\* the transport delivers a message, or a client sends a request
Deliver(messages) ==
    /\ inflight = None
    /\ inflight' \in messages
    /\ UNCHANGED <<canvasDB, chatDB, blobDB, processedBatchIds, processedMessageIds, now,
                   tasks, last,
                   usersDB, canvasCache, olderMessages>>

-----------------------------------------------------------------------------
(* Per-cell-key variant (part_000): canvas                                 *)

Rooms == {<<>>,                            \* "" : onPixelUpdate writes to "default"
          <<"a">>,
          <<"a", "/", "1", ":", "2">>}     \* "a/1:2"

\* the rooms records are stored under
StoredRooms == {EffectiveRoom(room) : room \in Rooms}

User == [id |-> <<"u", "1">>, name |-> <<"n", "1">>]

MkPixel(x, y, color) ==
    [x |-> x, y |-> y, color |-> color, userId |-> User.id, username |-> User.name]

PixelInputs == {MkPixel(1, 2, RED), MkPixel(1, 2, BLUE), MkPixel(3, 4, BLUE),
                MkPixel(90, 4, RED), MkPixel(1, 90, RED), MkPixel(0 - 1, 2, BLUE),
                MkPixel(3, 0 - 1, RED)}

Batches == SeqsUpTo(PixelInputs, MaxBatch)

\* the payload of a delivery on "pixelupdates"
PixelBatch(room, pixels, batchId, timestamp) ==
    [kind |-> "pixelBatch", room |-> room, pixels |-> pixels, batchId |-> batchId,
     timestamp |-> timestamp]

PixelBatches ==
    {PixelBatch(room, pixels, id[1], id[2]) :
        room \in Rooms, pixels \in Batches,
        id \in {<<<<>>, 100>>, <<B1, 200>>, <<B1, 100>>}}

ClearRequests == {[kind |-> "clearCanvas", room |-> room] : room \in Rooms \ {<<>>}}

\* getCanvas, body of the loop `for _, key := range keys`; unread holds the
\* keys whose db.Get fails or whose record json.Unmarshal rejects: their cell
\* is left as it is
ApplyKey(db, roomPrefix, canvas, key, unread) ==
    IF Len(key) > Len(roomPrefix)
    THEN LET coordPart == SubSeq(key, Len(roomPrefix) + 1, Len(key))
             p == Sscanf(coordPart)
         IN  IF p.ok /\ InBounds(p.x, p.y) /\ key \in DOMAIN db /\ key \notin unread
             THEN SetCell(canvas, p.x, p.y, db[key].color)
             ELSE canvas
    ELSE canvas

RECURSIVE ApplyKeys(_, _, _, _, _)
ApplyKeys(db, roomPrefix, canvas, keys, unread) ==
    IF Len(keys) = 0 THEN canvas
    ELSE ApplyKeys(db, roomPrefix, ApplyKey(db, roomPrefix, canvas, Head(keys), unread),
                   Tail(keys), unread)

\* getCanvas(room) when db.List succeeded and returned the keys in this order,
\* and db.Get succeeded for all of them but those in unread
CanvasFromKeys(db, room, keys, unread) ==
    ApplyKeys(db, RoomPrefix(room), EmptyGrid, keys, unread)

\* //export getCanvas (part_000): the grids it can answer with for the room.
\* db.List returns the keys in any order.  If mayFail, the store can fail:
\* when db.List does, the answer is the blank grid; when db.Get of a key does,
\* the key is passed over.
getCanvas(db, room, mayFail) ==
    LET keys == ListKeys(db, RoomPrefix(room))
    IN  {CanvasFromKeys(db, room, o, unread) :
            o \in Orders(keys), unread \in (IF mayFail THEN SUBSET keys ELSE {{}})}
            \cup (IF mayFail THEN {EmptyGrid} ELSE {})

\* onPixelUpdate, body of the loop `for i, pixel := range pixelBatch.Pixels`;
\* putOk says whether db.Put succeeds
StorePixel(db, room, pixel, putOk) ==
    IF InBounds(pixel.x, pixel.y) /\ putOk
    THEN DbPut(db, PixelKey(room, pixel.x, pixel.y), pixel)
    ELSE db

\* the loop over pixelBatch.Pixels from pixel i on
RECURSIVE StoreFrom(_, _, _, _, _)
StoreFrom(db, room, pixels, putOk, i) ==
    IF i > Len(pixels) THEN db
    ELSE StoreFrom(StorePixel(db, room, pixels[i], putOk[i]), room, pixels, putOk, i + 1)

StorePixels(db, room, pixels, putOk) == StoreFrom(db, room, pixels, putOk, 1)

\* a db.Put of the loop failed
PutFailed(pixels, putOk) ==
    \E i \in DOMAIN pixels : InBounds(pixels[i].x, pixels[i].y) /\ ~putOk[i]

\* //export onPixelUpdate (part_000) on the delivery in flight; putOk[i] says
\* whether the db.Put of pixel i succeeds
onPixelUpdate(putOk) ==
    /\ inflight.kind = "pixelBatch"
    /\ \E d \in isBatchProcessed(processedBatchIds, inflight.batchId, inflight.timestamp) :
        /\ processedBatchIds' = d.map
        /\ IF d.ret
           THEN /\ canvasDB' = canvasDB
                /\ last' = "duplicate"
           ELSE /\ canvasDB' = StorePixels(canvasDB, EffectiveRoom(inflight.room),
                                           inflight.pixels, putOk)
                /\ last' = IF PutFailed(inflight.pixels, putOk) THEN "putFailed" ELSE "stored"
    /\ inflight' = None
    /\ UNCHANGED <<chatDB, blobDB, processedMessageIds, now, tasks,
                   usersDB, canvasCache, olderMessages>>

\* //export clearCanvas (part_000) on the request in flight: db.List succeeds or
\* not, deleted is the set of listed keys whose db.Delete succeeded
clearCanvas(listOk, deleted) ==
    /\ inflight.kind = "clearCanvas"
    /\ deleted \subseteq ListKeys(canvasDB, RoomPrefix(inflight.room))
    /\ listOk \/ deleted = {}
    /\ canvasDB' = [k \in (DOMAIN canvasDB) \ deleted |-> canvasDB[k]]
    /\ last' = "cleared"
    /\ inflight' = None
    /\ UNCHANGED <<chatDB, blobDB, processedBatchIds, processedMessageIds, now, tasks,
                   usersDB, canvasCache, olderMessages>>

Init ==
    /\ canvasDB = <<>>
    /\ chatDB = <<>>
    /\ blobDB = <<>>
    /\ processedBatchIds = EmptyMap
    /\ processedMessageIds = EmptyMap
    /\ now = 1000
    /\ inflight = None
    /\ tasks = NoTasks
    /\ last = "init"
    /\ usersDB = <<>>
    /\ canvasCache = NoCache
    /\ olderMessages = 0

DeliverCell == Deliver(PixelBatches \cup ClearRequests)

OnPixelUpdate == \E putOk \in [1..MaxBatch -> BOOLEAN] : onPixelUpdate(putOk)

ClearCanvas ==
    \E listOk \in BOOLEAN, deleted \in SUBSET (DOMAIN canvasDB) : clearCanvas(listOk, deleted)

NextCell == DeliverCell \/ OnPixelUpdate \/ ClearCanvas

SpecCell == Init /\ [][NextCell]_vars

-----------------------------------------------------------------------------
(* The deduplication guard on its own: calls of isBatchProcessed and       *)
(* isMessageProcessed on maps that already hold entries                    *)

DedupCalls ==
    {[kind |-> "isBatchProcessed", id |-> id, timestamp |-> t] :
        id \in {<<>>, B1, B2, B3}, t \in {100, 200}}
    \cup {[kind |-> "isMessageProcessed", id |-> id, timestamp |-> 100] : id \in {<<>>, M1}}

\* the numbers of entries the maps hold when the run starts
InitOthers == {0} \cup ((MAX_PROCESSED_BATCHES - Headroom)..MAX_PROCESSED_BATCHES)

InitDedup ==
    /\ canvasDB = <<>>
    /\ chatDB = <<>>
    /\ blobDB = <<>>
    /\ \E n \in InitOthers :
          /\ processedBatchIds = [ids |-> <<>>, others |-> n]
          /\ processedMessageIds = [ids |-> <<>>, others |-> n]
    /\ now = 1000
    /\ inflight = None
    /\ tasks = NoTasks
    /\ last = "init"
    /\ usersDB = <<>>
    /\ canvasCache = NoCache
    /\ olderMessages = 0

Verdict(ret) == IF ret THEN "dropped" ELSE "accepted"

CallIsBatchProcessed ==
    /\ inflight.kind = "isBatchProcessed"
    /\ \E d \in isBatchProcessed(processedBatchIds, inflight.id, inflight.timestamp) :
          /\ processedBatchIds' = d.map
          /\ last' = Verdict(d.ret)
    /\ inflight' = None
    /\ UNCHANGED <<canvasDB, chatDB, blobDB, processedMessageIds, now, tasks,
                   usersDB, canvasCache, olderMessages>>

CallIsMessageProcessed ==
    /\ inflight.kind = "isMessageProcessed"
    /\ \E d \in isMessageProcessed(processedMessageIds, inflight.id, inflight.timestamp) :
          /\ processedMessageIds' = d.map
          /\ last' = Verdict(d.ret)
    /\ inflight' = None
    /\ UNCHANGED <<canvasDB, chatDB, blobDB, processedBatchIds, now, tasks,
                   usersDB, canvasCache, olderMessages>>

DeliverCall == Deliver(DedupCalls)

NextDedup == DeliverCall \/ CallIsBatchProcessed \/ CallIsMessageProcessed

SpecDedup == InitDedup /\ [][NextDedup]_vars

\* the map a call in flight works on, before and after the call
CalledMap == IF inflight.kind = "isBatchProcessed" THEN processedBatchIds ELSE processedMessageIds
CalledMapAfter ==
    IF inflight.kind = "isBatchProcessed" THEN processedBatchIds' ELSE processedMessageIds'

IsCall == inflight.kind \in {"isBatchProcessed", "isMessageProcessed"} /\ inflight' = None

\* C3: a call with a non-empty token that the map does not hold (never seen, or
\* evicted since) accepts; a call with a token the map holds, that is one
\* accepted before and not evicted since, drops and changes nothing; a call
\* with the empty token accepts and records nothing.
C3_AcceptOnce ==
    [][IsCall =>
        /\ (inflight.id = <<>>) =>
              (last' = "accepted" /\ CalledMapAfter = CalledMap)
        /\ (inflight.id # <<>> /\ inflight.id \in DOMAIN CalledMap.ids) =>
              (last' = "dropped" /\ CalledMapAfter = CalledMap)
        /\ (inflight.id # <<>> /\ inflight.id \notin DOMAIN CalledMap.ids) =>
              /\ last' = "accepted"
              /\ MapLen(CalledMap) < MAX_PROCESSED_BATCHES =>
                    CalledMapAfter = MapPut(CalledMap, inflight.id, inflight.timestamp)]_vars

\* a token was accepted, recorded and then dropped on its next delivery
C3_Witness ==
    /\ last = "dropped"
    /\ B1 \in DOMAIN processedBatchIds.ids
    /\ processedBatchIds.others = MAX_PROCESSED_BATCHES - Headroom

\* C6: after every call the map holds at most 1000 entries, and a call that
\* inserts the 1001st entry removes exactly 200 entries before it returns.
C6_BoundedMap ==
    [][IsCall =>
        /\ MapLen(CalledMapAfter) <= MAX_PROCESSED_BATCHES
        /\ (MapLen(CalledMap) = MAX_PROCESSED_BATCHES /\ last' = "accepted"
                /\ inflight.id # <<>>) =>
              MapLen(CalledMapAfter) = MAX_PROCESSED_BATCHES + 1 - EvictCount]_vars

\* a call overflowed the map and left 801 entries
C6_Witness ==
    /\ last = "accepted"
    /\ MapLen(processedBatchIds) = MAX_PROCESSED_BATCHES + 1 - EvictCount

\* pixel i is in range and no later pixel of the batch addresses its cell
Effective(pixels, i) ==
    /\ InBounds(pixels[i].x, pixels[i].y)
    /\ \A j \in DOMAIN pixels :
          j > i => <<pixels[j].x, pixels[j].y>> # <<pixels[i].x, pixels[i].y>>

\* the cells the in-range pixels of a batch address
Addressed(pixels) ==
    {<<pixels[i].x, pixels[i].y>> : i \in {j \in DOMAIN pixels : InBounds(pixels[j].x, pixels[j].y)}}

-----------------------------------------------------------------------------
(* Per-cell-key variant (part_000): chat, and duplicate deliveries         *)

\* fmt.Sprintf("/%s/%d", room, timestamp)
ChatKey(room, timestamp) == <<"/">> \o room \o <<"/">> \o Itoa(timestamp)

\* fmt.Sprintf("%d", time.Now().UnixNano()) at second sec, frac nanoseconds in
NanoId(sec, frac) == Itoa(sec) \o [i \in 1..9 |-> IF i = 9 THEN Itoa(frac)[1] ELSE "0"]

ChatText == <<"h", "i">>

ChatMessages ==
    {[kind |-> "chatMessage", room |-> room, message |-> ChatText, messageId |-> id,
      timestamp |-> t] :
        room \in {<<>>}, id \in {<<>>, M1}, t \in {0, 100, 200}}

\* func onChatMessages (part_000) on the delivery in flight; frac is the
\* sub-second part of the clock, putOk whether db.Put succeeds
onChatMessages(frac, putOk) ==
    /\ inflight.kind = "chatMessage"
    /\ \E d \in isMessageProcessed(processedMessageIds, inflight.messageId, inflight.timestamp) :
        /\ processedMessageIds' = d.map
        /\ IF d.ret
           THEN /\ chatDB' = chatDB
                /\ last' = "duplicate"
           ELSE LET room == EffectiveRoom(inflight.room)
                    messageId == IF inflight.messageId = <<>> THEN NanoId(now, frac)
                                 ELSE inflight.messageId
                    timestamp == IF inflight.timestamp = 0 THEN now ELSE inflight.timestamp
                    chatMessage == [id |-> messageId, userId |-> User.id,
                                    username |-> User.name, message |-> inflight.message,
                                    timestamp |-> timestamp]
                IN  /\ chatDB' = IF putOk THEN DbPut(chatDB, ChatKey(room, timestamp), chatMessage)
                                 ELSE chatDB
                    /\ last' = IF putOk THEN "stored" ELSE "putFailed"
    /\ inflight' = None
    /\ UNCHANGED <<canvasDB, blobDB, processedBatchIds, now, tasks,
                   usersDB, canvasCache, olderMessages>>

\* //export clearChat (part_000) on the request in flight: db.List succeeds or
\* not, deleted is the set of listed keys whose db.Delete succeeded; the
\* answer is 200 in every case
clearChat(listOk, deleted) ==
    /\ inflight.kind = "clearChat"
    /\ deleted \subseteq ListKeys(chatDB, RoomPrefix(inflight.room))
    /\ listOk \/ deleted = {}
    /\ chatDB' = [k \in (DOMAIN chatDB) \ deleted |-> chatDB[k]]
    /\ last' = "cleared"
    /\ inflight' = None
    /\ UNCHANGED <<canvasDB, blobDB, processedBatchIds, processedMessageIds, now, tasks,
                   usersDB, canvasCache, olderMessages>>

\* the clock advances
Tick ==
    /\ now < 1000 + MaxTicks
    /\ now' = now + 1
    /\ UNCHANGED <<canvasDB, chatDB, blobDB, processedBatchIds, processedMessageIds, inflight,
                   tasks, last,
                   usersDB, canvasCache, olderMessages>>

DupBatches ==
    {PixelBatch(room, <<pixel>>, id[1], id[2]) :
        room \in {<<"a">>}, pixel \in {MkPixel(1, 2, RED), MkPixel(3, 4, BLUE)},
        id \in {<<<<>>, 100>>, <<B1, 200>>, <<B1, 100>>}}

\* a request without the room parameter clears "default"
ClearChatRequests == {[kind |-> "clearChat", room |-> DEFAULT_ROOM]}

DeliverDup == Deliver(DupBatches \cup ChatMessages)

OnChatMessages == \E frac \in 0..1, putOk \in BOOLEAN : onChatMessages(frac, putOk)

ClearChat ==
    \E listOk \in BOOLEAN, deleted \in SUBSET (DOMAIN chatDB) : clearChat(listOk, deleted)

NextDup == DeliverDup \/ OnPixelUpdate \/ OnChatMessages \/ Tick

SpecDup == Init /\ [][NextDup]_vars

\* the chat log of part_000 alone: messages are stored and rooms are cleared
DeliverChatLog == Deliver(ChatMessages \cup ClearChatRequests)

NextChatLog == DeliverChatLog \/ OnChatMessages \/ ClearChat \/ Tick

SpecChatLog == Init /\ [][NextChatLog]_vars

\* C4: a delivery of onPixelUpdate (onChatMessages) whose non-empty batchId
\* (messageId) is recorded in the token map puts nothing into the store and
\* leaves the token map as it is: no new entry, and the timestamp recorded at
\* the first delivery is kept.  (These handlers publish nothing at all.)
C4_DuplicateNoEffect ==
    [][/\ (/\ inflight.kind = "pixelBatch" /\ inflight' = None
           /\ inflight.batchId # <<>>
           /\ inflight.batchId \in DOMAIN processedBatchIds.ids)
          => (/\ canvasDB' = canvasDB /\ chatDB' = chatDB /\ blobDB' = blobDB
              /\ processedBatchIds' = processedBatchIds
              /\ last' = "duplicate")
       /\ (/\ inflight.kind = "chatMessage" /\ inflight' = None
           /\ inflight.messageId # <<>>
           /\ inflight.messageId \in DOMAIN processedMessageIds.ids)
          => (/\ canvasDB' = canvasDB /\ chatDB' = chatDB /\ blobDB' = blobDB
              /\ processedMessageIds' = processedMessageIds
              /\ last' = "duplicate")]_vars

\* a second delivery of a stored chat message and of a stored batch was dropped
C4_Witness ==
    /\ last = "duplicate"
    /\ M1 \in DOMAIN processedMessageIds.ids
    /\ B1 \in DOMAIN processedBatchIds.ids
    /\ ChatKey(DEFAULT_ROOM, 100) \in DOMAIN chatDB
    /\ PixelKey(<<"a">>, 1, 2) \in DOMAIN canvasDB

-----------------------------------------------------------------------------
(* Two handler tasks in isBatchProcessed at the same time.  The code takes *)
(* no lock around processedBatchIds, so the lookup (line 64) and the       *)
(* recording (lines 69-82) of one task interleave with those of the other. *)

RaceCalls ==
    {[kind |-> "isBatchProcessed", id |-> id, timestamp |-> t] :
        id \in {<<>>, B1, B2}, t \in {100, 200}}

\* a task enters isBatchProcessed with the call in flight
EnterIsBatchProcessed(t) ==
    /\ inflight.kind = "isBatchProcessed"
    /\ tasks[t].pc = "idle"
    /\ tasks' = [tasks EXCEPT ![t] = [pc |-> "lookup", id |-> inflight.id,
                                      timestamp |-> inflight.timestamp]]
    /\ inflight' = None
    /\ UNCHANGED <<canvasDB, chatDB, blobDB, processedBatchIds, processedMessageIds, now, last,
                   usersDB, canvasCache, olderMessages>>

\* lines 59-66: the empty-id test and the map lookup
Lookup(t) ==
    /\ tasks[t].pc = "lookup"
    /\ tasks' = [tasks EXCEPT ![t].pc =
                    IF tasks[t].id = <<>> THEN "accepted"
                    ELSE IF tasks[t].id \in DOMAIN processedBatchIds.ids THEN "dropped"
                    ELSE "record"]
    /\ UNCHANGED <<canvasDB, chatDB, blobDB, processedBatchIds, processedMessageIds, now,
                   inflight, last,
                   usersDB, canvasCache, olderMessages>>

\* lines 69-84: the insertion, the cleanup, return false
Record(t) ==
    /\ tasks[t].pc = "record"
    /\ processedBatchIds' \in
          AfterRecord(MapPut(processedBatchIds, tasks[t].id, tasks[t].timestamp),
                      MAX_PROCESSED_BATCHES)
    /\ tasks' = [tasks EXCEPT ![t].pc = "accepted"]
    /\ UNCHANGED <<canvasDB, chatDB, blobDB, processedMessageIds, now, inflight, last,
                   usersDB, canvasCache, olderMessages>>

DeliverRace == Deliver(RaceCalls)
EnterCall == \E t \in DOMAIN tasks : EnterIsBatchProcessed(t)
LookupStep == \E t \in DOMAIN tasks : Lookup(t)
RecordStep == \E t \in DOMAIN tasks : Record(t)

NextRace == DeliverRace \/ EnterCall \/ LookupStep \/ RecordStep

SpecRace == Init /\ [][NextRace]_vars

\* C5: of two tasks that deliver the same new non-empty batchId at most one is
\* accepted, and no task records the id while the other is between its lookup
\* and its recording of the same id.
C5_AtMostOneAccepted ==
    \A t, u \in DOMAIN tasks :
        (t # u /\ tasks[t].pc \in {"record", "accepted"} /\ tasks[u].pc \in {"record", "accepted"})
            => (tasks[t].id = <<>> \/ tasks[t].id # tasks[u].id)

-----------------------------------------------------------------------------
(* Whole-canvas variant (part_004): one JSON grid per room under the key   *)
(* "room:<room>", read, modified and written back by onPixelUpdate         *)

\* "room:" + room
CanvasKey(room) == <<"r", "o", "o", "m", ":">> \o room

\* the grid of CanvasHeight rows of CanvasWidth "#ffffff" cells
BlankCanvas == EmptyGrid

\* the loop over pixelBatch.Pixels (lines 506-519) from pixel i on
RECURSIVE PaintFrom(_, _, _)
PaintFrom(canvas, pixels, i) ==
    IF i > Len(pixels) THEN canvas
    ELSE PaintFrom(IF InBounds(pixels[i].x, pixels[i].y)
                   THEN SetCell(canvas, pixels[i].x, pixels[i].y, pixels[i].color)
                   ELSE canvas,
                   pixels, i + 1)

Paint(canvas, pixels) == PaintFrom(canvas, pixels, 1)

\* lines 500-519: canvas[0] or canvas[pixel.Y][pixel.X] is outside the parsed
\* grid (index out of range: the handler stops with a runtime fault)
IndexFault(canvas, pixels) ==
    \/ GridHeight(canvas) = 0
    \/ \E i \in DOMAIN pixels :
          /\ InBounds(pixels[i].x, pixels[i].y)
          /\ (pixels[i].y >= GridHeight(canvas) \/ pixels[i].x >= GridWidth(canvas))

\* len(validPixels) > 0
HasValidPixel(pixels) == \E i \in DOMAIN pixels : InBounds(pixels[i].x, pixels[i].y)

\* //export getCanvas (part_004): the stored grid, or the blank grid when
\* db.Get returns an error (no grid stored, or if getMayFail a failing store)
getCanvasBlob(db, room, getMayFail) ==
    (IF CanvasKey(room) \in DOMAIN db THEN {db[CanvasKey(room)]} ELSE {BlankCanvas})
        \cup (IF getMayFail THEN {BlankCanvas} ELSE {})

\* lines 412-472: the delivery is parsed and checked against processedBatchIds
BeginPixelUpdate(t) ==
    /\ inflight.kind = "pixelBatch"
    /\ tasks[t].pc \in {"idle", "done"}
    /\ \E d \in isBatchProcessed(processedBatchIds, inflight.batchId, inflight.timestamp) :
          /\ processedBatchIds' = d.map
          /\ IF d.ret
             THEN /\ tasks' = [tasks EXCEPT ![t] = [pc |-> "done", result |-> "duplicate",
                                                    room |-> EffectiveRoom(inflight.room),
                                                    pixels |-> inflight.pixels]]
                  /\ last' = "duplicate"
             ELSE /\ tasks' = [tasks EXCEPT ![t] = [pc |-> "get",
                                                    room |-> EffectiveRoom(inflight.room),
                                                    pixels |-> inflight.pixels]]
                  /\ last' = last
    /\ inflight' = None
    /\ UNCHANGED <<canvasDB, chatDB, blobDB, processedMessageIds, now,
                   usersDB, canvasCache, olderMessages>>

\* lines 474-477: canvasData, err := db.Get(canvasKey); getOk says whether the
\* store answers (a key that is not stored is an error in any case)
GetCanvasData(t, getOk) ==
    /\ tasks[t].pc = "get"
    /\ IF getOk /\ CanvasKey(tasks[t].room) \in DOMAIN blobDB
       THEN tasks' = [tasks EXCEPT ![t] = [pc |-> "update", room |-> tasks[t].room,
                                           pixels |-> tasks[t].pixels,
                                           canvas |-> blobDB[CanvasKey(tasks[t].room)]]]
       ELSE tasks' = [tasks EXCEPT ![t] = [pc |-> "create", room |-> tasks[t].room,
                                           pixels |-> tasks[t].pixels,
                                           canvas |-> BlankCanvas]]
    /\ UNCHANGED <<canvasDB, chatDB, blobDB, processedBatchIds, processedMessageIds, now,
                   inflight, last,
                   usersDB, canvasCache, olderMessages>>

\* lines 478-489: on a Get error a blank canvas is built and put; the result of
\* this db.Put is not looked at
CreateCanvas(t, putOk) ==
    /\ tasks[t].pc = "create"
    /\ blobDB' = IF putOk THEN DbPut(blobDB, CanvasKey(tasks[t].room), BlankCanvas) ELSE blobDB
    /\ tasks' = [tasks EXCEPT ![t].pc = "update"]
    /\ UNCHANGED <<canvasDB, chatDB, processedBatchIds, processedMessageIds, now, inflight, last,
                   usersDB, canvasCache, olderMessages>>

\* lines 494-544: the pixels are painted into the parsed canvas, which is put
\* back if a pixel was valid
UpdateCanvas(t, putOk) ==
    /\ tasks[t].pc = "update"
    /\ LET result == IF ~Parses(tasks[t].canvas) THEN "parseFailed"
                     ELSE IF IndexFault(tasks[t].canvas, tasks[t].pixels) THEN "fault"
                     ELSE IF ~HasValidPixel(tasks[t].pixels) THEN "skipped"
                     ELSE IF putOk THEN "stored" ELSE "putFailed"
       IN  /\ blobDB' = IF result = "stored"
                        THEN DbPut(blobDB, CanvasKey(tasks[t].room),
                                   Paint(tasks[t].canvas, tasks[t].pixels))
                        ELSE blobDB
           /\ tasks' = [tasks EXCEPT ![t] = [pc |-> "done", result |-> result,
                                             room |-> tasks[t].room,
                                             pixels |-> tasks[t].pixels]]
           /\ last' = result
    /\ UNCHANGED <<canvasDB, chatDB, processedBatchIds, processedMessageIds, now, inflight,
                   usersDB, canvasCache, olderMessages>>

\* //export clearCanvas (part_004) on the request in flight: the room's grid is
\* deleted (200), or db.Delete fails and the answer is 500
clearCanvas_p4(deleteOk) ==
    /\ inflight.kind = "clearCanvas"
    /\ blobDB' = IF deleteOk THEN DbDelete(blobDB, CanvasKey(EffectiveRoom(inflight.room)))
                 ELSE blobDB
    /\ last' = IF deleteOk THEN "cleared" ELSE "500"
    /\ inflight' = None
    /\ UNCHANGED <<canvasDB, chatDB, processedBatchIds, processedMessageIds, now, tasks,
                   usersDB, canvasCache, olderMessages>>

ClearRequests_p4 == {[kind |-> "clearCanvas", room |-> <<"a">>]}

DeliverClear_p4 == Deliver(ClearRequests_p4)

ClearCanvas_p4 == \E deleteOk \in BOOLEAN : clearCanvas_p4(deleteOk)

BlobRooms == {<<"a">>}

BlobPixels == {MkPixel(1, 2, RED), MkPixel(3, 4, BLUE), MkPixel(90, 4, RED),
               MkPixel(1, 90, RED), MkPixel(0 - 1, 2, BLUE), MkPixel(3, 0 - 1, RED)}

BlobBatches ==
    {PixelBatch(room, pixels, id, 100) :
        room \in BlobRooms, pixels \in SeqsUpTo(BlobPixels, MaxBatch), id \in {<<>>, B1}}

DeliverBlob == Deliver(BlobBatches)
GetStep == \E t \in DOMAIN tasks, getOk \in BOOLEAN : GetCanvasData(t, getOk)
CreateStep == \E t \in DOMAIN tasks, putOk \in BOOLEAN : CreateCanvas(t, putOk)
UpdateStep == \E t \in DOMAIN tasks, putOk \in BOOLEAN : UpdateCanvas(t, putOk)

\* deliveries handled one after the other
BeginAlone == BeginPixelUpdate(1)

NextBlob == DeliverBlob \/ BeginAlone \/ GetStep \/ CreateStep \/ UpdateStep
            \/ DeliverClear_p4 \/ ClearCanvas_p4

SpecBlob == Init /\ [][NextBlob]_vars

\* two deliveries handled by two tasks at the same time, each task once
BeginAny == \E t \in DOMAIN tasks : tasks[t].pc = "idle" /\ BeginPixelUpdate(t)

ConcBatches ==
    {PixelBatch(<<"a">>, <<pixel>>, id, 100) :
        pixel \in {MkPixel(1, 2, RED), MkPixel(3, 4, BLUE), MkPixel(90, 4, RED)},
        id \in {<<>>, B1}}

DeliverConc == Deliver(ConcBatches)

NextBlobConc == DeliverConc \/ BeginAny \/ GetStep \/ CreateStep \/ UpdateStep

SpecBlobConc == Init /\ [][NextBlobConc]_vars

\* //export onChatMessages (part_004), lines 548-660: the delivery is checked
\* against processedMessageIds, the list under "room:<room>" of /chat is read
\* with db.Get(chatKey) (614; empty on an error) and the message is appended
\* with the sender's messageId and timestamp, or the clock's where the sender
\* left them out
onChatMessages_p4(t, getOk, frac) ==
    /\ inflight.kind = "chatMessage"
    /\ tasks[t].pc = "idle"
    /\ \E d \in isMessageProcessed(processedMessageIds, inflight.messageId, inflight.timestamp) :
        /\ processedMessageIds' = d.map
        /\ IF d.ret
           THEN /\ tasks' = tasks
                /\ last' = "duplicate"
           ELSE LET chatKey == CanvasKey(EffectiveRoom(inflight.room))
                    messages == IF getOk /\ chatKey \in DOMAIN chatDB THEN chatDB[chatKey]
                                ELSE <<>>
                    messageId == IF inflight.messageId = <<>> THEN NanoId(now, frac)
                                 ELSE inflight.messageId
                    timestamp == IF inflight.timestamp = 0 THEN now ELSE inflight.timestamp
                    chatMessage == [id |-> messageId, userId |-> User.id,
                                    username |-> User.name, message |-> inflight.message,
                                    timestamp |-> timestamp]
                IN  /\ tasks' = [tasks EXCEPT ![t] =
                                    [pc |-> "putChatRoom", chatKey |-> chatKey,
                                     messages |-> IF Len(messages) >= 100
                                                  THEN SubSeq(Append(messages, chatMessage),
                                                              Len(messages) - 98,
                                                              Len(messages) + 1)
                                                  ELSE Append(messages, chatMessage)]]
                    /\ last' = last
    /\ inflight' = None
    /\ UNCHANGED <<canvasDB, chatDB, blobDB, processedBatchIds, now, usersDB, canvasCache,
                   olderMessages>>

\* onChatMessages, line 670: db.Put(chatKey, updatedData)
PutChatRoom_p4(t, putOk) ==
    /\ tasks[t].pc = "putChatRoom"
    /\ chatDB' = IF putOk THEN DbPut(chatDB, tasks[t].chatKey, tasks[t].messages) ELSE chatDB
    /\ last' = IF putOk THEN "stored" ELSE "putFailed"
    /\ tasks' = [tasks EXCEPT ![t] = [pc |-> "idle"]]
    /\ UNCHANGED <<canvasDB, blobDB, processedBatchIds, processedMessageIds, now, inflight,
                   usersDB, canvasCache, olderMessages>>

\* //export clearChat (part_004) on the request in flight: the room's list is
\* deleted (200), or db.Delete fails and the answer is 500
clearChat_p4(deleteOk) ==
    /\ inflight.kind = "clearChat"
    /\ chatDB' = IF deleteOk THEN DbDelete(chatDB, CanvasKey(EffectiveRoom(inflight.room)))
                 ELSE chatDB
    /\ last' = IF deleteOk THEN "cleared" ELSE "500"
    /\ inflight' = None
    /\ UNCHANGED <<canvasDB, blobDB, processedBatchIds, processedMessageIds, now, tasks,
                   usersDB, canvasCache, olderMessages>>

\* the longest list of the room, stored or held by a handler under way
LongestChat_p4 ==
    LET lens == {Len(chatDB[k]) : k \in DOMAIN chatDB}
                    \cup {Len(tasks[t].messages) :
                             t \in {b \in DOMAIN tasks : tasks[b].pc = "putChatRoom"}}
                    \cup {0}
    IN  CHOOSE n \in lens : \A k \in lens : k <= n

\* chat deliveries while the lists are short, and the request that clears
\* the room's list
ChatRequests_p4 ==
    {[kind |-> "clearChat", room |-> <<>>]}
        \cup (IF LongestChat_p4 + Cardinality({t \in DOMAIN tasks : tasks[t].pc # "idle"})
                    <= MaxChat
              THEN {[kind |-> "chatMessage", room |-> <<>>, message |-> ChatText,
                     messageId |-> c[1], timestamp |-> c[2]] :
                       c \in {<<M1, 100>>, <<M2, 100>>, <<(<<>>), 0>>}}
              ELSE {})

DeliverChat_p4 == Deliver(ChatRequests_p4)
OnChatMessages_p4 ==
    \E t \in DOMAIN tasks, getOk \in BOOLEAN, frac \in 0..1 : onChatMessages_p4(t, getOk, frac)
PutChatRoomStep == \E t \in DOMAIN tasks, putOk \in BOOLEAN : PutChatRoom_p4(t, putOk)
ClearChat_p4 == \E deleteOk \in BOOLEAN : clearChat_p4(deleteOk)

\* the chat of part_004
NextChat_p4 == DeliverChat_p4 \/ OnChatMessages_p4 \/ PutChatRoomStep \/ ClearChat_p4

SpecChat_p4 == Init /\ [][NextChat_p4]_vars

\* C2: a write of pixels outside [0,width) x [0,height) persists nothing for
\* them and leaves the canvas as it was: no step of an onPixelUpdate whose
\* batch holds only out-of-range pixels changes what getCanvas answers for the
\* room, and an in-range pixel of a batch that was stored shows in the canvas
\* whatever out-of-range pixels the batch holds besides.
C2_OutOfRangeRejected ==
    [][\A t \in DOMAIN tasks :
          /\ (tasks[t].pc \in {"get", "create", "update"} /\ ~HasValidPixel(tasks[t].pixels)) =>
                \A g \in getCanvasBlob(blobDB', tasks[t].room, FALSE),
                   h \in getCanvasBlob(blobDB, tasks[t].room, FALSE) : SameGrid(g, h)
          /\ (tasks[t].pc = "update" /\ tasks'[t].pc = "done" /\ tasks'[t].result = "stored") =>
                \A g \in getCanvasBlob(blobDB', tasks[t].room, FALSE) :
                    /\ \A c \in DOMAIN g : InBounds(c[1], c[2])
                    /\ \A i \in DOMAIN tasks[t].pixels :
                          Effective(tasks[t].pixels, i) =>
                              At(g, tasks[t].pixels[i].x, tasks[t].pixels[i].y)
                                  = tasks[t].pixels[i].color]_vars

\* C8: once two concurrent pixel writes to different cells of one room have
\* both completed successfully, the stored canvas holds both colours.
C8_NoLostUpdate ==
    \A t, u \in DOMAIN tasks :
        (/\ t # u
         /\ tasks[t].pc = "done" /\ tasks[t].result = "stored"
         /\ tasks[u].pc = "done" /\ tasks[u].result = "stored"
         /\ tasks[t].room = tasks[u].room
         /\ Addressed(tasks[t].pixels) \cap Addressed(tasks[u].pixels) = {})
            => \A g \in getCanvasBlob(blobDB, tasks[t].room, FALSE) :
                  \A i \in DOMAIN tasks[t].pixels :
                      Effective(tasks[t].pixels, i) =>
                          At(g, tasks[t].pixels[i].x, tasks[t].pixels[i].y)
                              = tasks[t].pixels[i].color

-----------------------------------------------------------------------------
(* Properties of the per-cell-key variant                                  *)

\* the step is a run of onPixelUpdate (part_000) that stored every in-range pixel
StoredBatch == inflight.kind = "pixelBatch" /\ last' = "stored"

\* C1: in the per-cell-key variant, after a non-duplicate batch was processed
\* without store failure, every answer of getCanvas for the room of the batch
\* shows each written pixel's colour at its cell (for a cell the batch writes
\* twice, the colour written last), and every cell the batch does not write
\* holds what getCanvas answered for it before.
C1_WriteThenRead ==
    [][StoredBatch =>
        LET room == EffectiveRoom(inflight.room)
            pixels == inflight.pixels
        IN  \A before \in getCanvas(canvasDB, room, FALSE),
               after \in getCanvas(canvasDB', room, FALSE) :
                /\ \A i \in DOMAIN pixels :
                      Effective(pixels, i) =>
                          At(after, pixels[i].x, pixels[i].y) = pixels[i].color
                /\ \A c \in ((DOMAIN before) \cup (DOMAIN after)) \ Addressed(pixels) :
                      At(after, c[1], c[2]) = At(before, c[1], c[2])]_vars

\* C7: for a cell (room, x, y), the canvas shows the colour of the write whose
\* Put completed last: the record stored under the cell's key is the one put
\* last (whatever timestamp its batch carried, and the later one of two pixels
\* of one batch), and every answer of getCanvas shows that record's colour.
C7_LastWriteWins ==
    \A room \in StoredRooms, p \in PixelInputs :
        PixelKey(room, p.x, p.y) \in DOMAIN canvasDB =>
            \A g \in getCanvas(canvasDB, room, FALSE) :
                At(g, p.x, p.y) = canvasDB[PixelKey(room, p.x, p.y)].color

\* C9: a run of onPixelUpdate or clearCanvas for one room leaves the answers of
\* getCanvas for every other room as they were, also for rooms whose names
\* contain '/' or ':'.
C9_RoomsPartitioned ==
    [][(inflight.kind \in {"pixelBatch", "clearCanvas"} /\ inflight' = None) =>
        \A other \in StoredRooms \ {EffectiveRoom(inflight.room)} :
            /\ \A g \in getCanvas(canvasDB', other, FALSE) :
                  \E h \in getCanvas(canvasDB, other, FALSE) : SameGrid(g, h)
            /\ \A h \in getCanvas(canvasDB, other, FALSE) :
                  \E g \in getCanvas(canvasDB', other, FALSE) : SameGrid(g, h)]_vars

\* a room nothing is ever written to
UNWRITTEN_ROOM == <<"n">>

\* C10: every answer of getCanvas is a grid within CanvasHeight x CanvasWidth in
\* which a cell holds the colour of the record stored for (room, x, y) if there
\* is one and "#ffffff" otherwise, whatever other keys the store holds under the
\* room prefix; a failing List gives a grid, too.
C10_ReadIsProjection ==
    \A room \in StoredRooms \cup {UNWRITTEN_ROOM} :
        /\ \A g \in getCanvas(canvasDB, room, TRUE) :
              \A c \in DOMAIN g : InBounds(c[1], c[2])
        /\ \A g \in getCanvas(canvasDB, room, FALSE) :
              \A c \in (DOMAIN g) \cup {<<p.x, p.y>> : p \in PixelInputs} :
                  At(g, c[1], c[2]) =
                      IF PixelKey(room, c[1], c[2]) \in DOMAIN canvasDB
                      THEN canvasDB[PixelKey(room, c[1], c[2])].color
                      ELSE WHITE

-----------------------------------------------------------------------------
(* Cached single-canvas variant (part_002): one grid under the key         *)
(* "canvas", colour validation, canvasCache                                *)

CANVAS_KEY == <<"c", "a", "n", "v", "a", "s">>

HexDigits == {"0", "1", "2", "3", "4", "5", "6", "7", "8", "9",
              "A", "B", "C", "D", "E", "F", "a", "b", "c", "d", "e", "f"}

\* strings.ContainsAny(s, chars)
ContainsAny(s, chars) == \E i \in DOMAIN s : s[i] \in chars

\* part_002 line 617 and func isValidPixel (part_001, backend.go)
isValidPixel(x, y) == x >= 0 /\ x < CanvasWidth100 /\ y >= 0 /\ y < CanvasHeight100

\* func isValidColor (part_002)
isValidColor(color) ==
    /\ ByteLen(color) = 7
    /\ color[1] = "#"
    /\ ContainsAny(SubSeq(color, 2, Len(color)), HexDigits)

\* func isValidColor (backend.go, third variant): every one of the six
\* bytes after '#' is tested, and a byte of a longer character is no digit
isValidColorV3(color) ==
    /\ ByteLen(color) = 7
    /\ color[1] = "#"
    /\ \A i \in 2..Len(color) : color[i] \in HexDigits

Colors == {RED, BLUE,
           <<"#", "z", "z", "z", "z", "z", "0">>,
           <<"#", "z", "z", "z", "z", "z", "z">>,
           <<"f", "f", "0", "0", "0", "0", "0">>,
           <<"#", "f", "f", "f">>,
           <<"#", "U+00A0", "f", "f", "f", "f">>}

SinglePixels ==
    {[kind |-> "pixel", pixel |-> MkPixel(c[1], c[2], color)] :
        c \in {<<1, 2>>, <<3, 4>>, <<100, 4>>, <<0 - 1, 2>>}, color \in Colors}

\* func getCanvasFromDB (part_002), lines 139-172, on store db: the stored
\* canvas is read; when db.Get fails or the data do not parse, createCanvas
\* writes the blank canvas and the canvas is read again.  r says which store
\* calls succeed (create and get2 are those of the one recreation that can
\* happen).  [err, db, canvas]
getCanvasFromDB(db, r) ==
    IF r.get1 /\ CANVAS_KEY \in DOMAIN db /\ Parses(db[CANVAS_KEY])
    THEN [err |-> FALSE, db |-> db, canvas |-> db[CANVAS_KEY]]
    ELSE IF ~r.create
    THEN [err |-> TRUE, db |-> db, canvas |-> EmptyGrid]
    ELSE [err |-> ~r.get2, db |-> DbPut(db, CANVAS_KEY, EmptyGrid), canvas |-> EmptyGrid]

-----------------------------------------------------------------------------
(* Reset of a room (part_000 clearCanvas)                                  *)

\* C12: after clearCanvas answered "Canvas cleared" (status 200) for a room,
\* every cell getCanvas returns for that room is the background: no pixel
\* record of the room survives the reset.
C12_ResetClearsRoom ==
    [][(inflight.kind = "clearCanvas" /\ last' = "cleared")
          => \A g \in getCanvas(canvasDB', inflight.room, FALSE) : SameGrid(g, EmptyGrid)]_vars

-----------------------------------------------------------------------------
(* Presence-gated variant (part_001): users under their id in "/users",    *)
(* chat messages under their id in "/chat", one grid under "canvas"        *)

U1 == <<"u", "1">>
ANN == <<"a", "n", "n">>

MkUser(id, username, isOnline, lastSeen, pixelsPlaced) ==
    [id |-> id, username |-> username, isOnline |-> isOnline, lastSeen |-> lastSeen,
     pixelsPlaced |-> pixelsPlaced]

MkMessage(id, userId, username, message, timestamp) ==
    [id |-> id, userId |-> userId, username |-> username, message |-> message,
     timestamp |-> timestamp]

\* the instant the runs start at
StartTime == 1000

\* the clock moves on to the online timeout, or past it
Advance ==
    /\ now' \in {t \in {StartTime + UserTimeout, StartTime + UserTimeout + 1} : t > now}
    /\ UNCHANGED <<canvasDB, chatDB, blobDB, processedBatchIds, processedMessageIds, inflight,
                   tasks, last, usersDB, canvasCache, olderMessages>>

\* user records as a publisher on "userupdates" can send them
UserUpdates ==
    {[kind |-> "userUpdate", user |-> MkUser(id, ANN, isOnline, lastSeen, pixelsPlaced)] :
        id \in {<<>>, U1}, isOnline \in BOOLEAN, lastSeen \in {0, now}, pixelsPlaced \in {0, 1}}


ChatPosts ==
    {[kind |-> "chat", message |-> MkMessage(id, U1, ANN, text, t)] :
        id \in {M1, M2}, text \in {<<>>, ChatText}, t \in {100, 200}}

PresencePixels ==
    {[kind |-> "pixel", pixel |-> MkPixel(c[1], c[2], RED)] : c \in {<<1, 2>>, <<100, 4>>}}

\* the tasks that are running a handler
Busy == {t \in DOMAIN tasks : tasks[t].pc # "idle"}

\* the counters of placed pixels, stored and in the running tasks' copies
PlacedCounts ==
    {usersDB[id].pixelsPlaced : id \in DOMAIN usersDB}
        \cup {tasks[t].user.pixelsPlaced :
                 t \in {b \in Busy : tasks[b].pc \in {"readCanvas", "putCanvas", "saveUser"}}}

\* the pixels the model still delivers: the placements counted and under way
\* stay within MaxPlaced
PixelsWithinBound ==
    IF \A n \in PlacedCounts : n + Cardinality(Busy) < MaxPlaced
    THEN PresencePixels ELSE {}

\* which calls of getCanvasFromDB succeed: the first db.Get, initCanvas's
\* db.Put, the second db.Get
ReadOutcomes == [get1 : BOOLEAN, create : BOOLEAN, get2 : BOOLEAN]

\* func getCanvasFromDB (part_001), with initCanvas: [err, db, canvas]
getCanvasFromDB_p1(db, r) ==
    LET read == IF r.get1 /\ CANVAS_KEY \in DOMAIN db
                THEN [err |-> FALSE, db |-> db, canvas |-> db[CANVAS_KEY]]
                ELSE IF ~r.create
                THEN [err |-> TRUE, db |-> db, canvas |-> EmptyGrid]
                ELSE [err |-> ~r.get2, db |-> DbPut(db, CANVAS_KEY, EmptyGrid),
                      canvas |-> EmptyGrid]
    IN  IF ~read.err /\ ~Parses(read.canvas)
        THEN [err |-> TRUE, db |-> read.db, canvas |-> EmptyGrid]
        ELSE read

\* func getUsersFromDB (part_001): the users of the answer
\* (listOk: db.List succeeded; unread: the keys whose db.Get failed)
getUsersFromDB_p1(db, clock, listOk, unread) ==
    IF listOk
    THEN {db[k] : k \in {k \in (DOMAIN db) \ unread : (clock - db[k].lastSeen) <= UserTimeout}}
    ELSE {}

\* the orders of the stored messages that db.List("") can produce
MessageOrders(db) == {[i \in DOMAIN o |-> db[o[i]]] : o \in Orders(DOMAIN db)}

\* the stored messages getChatMessagesFromDB gets to see: none when
\* db.List("") fails, and not those whose db.Get fails (the keys in unread)
ReadMessages(db, listOk, unread) ==
    IF listOk THEN [k \in (DOMAIN db) \ unread |-> db[k]] ELSE <<>>

\* func getChatMessagesFromDB (part_001): the possible answers.  An answer is
\* [shown, older]: the messages of chatDB it holds, in order, and the number
\* of older messages it holds besides, and where those sit (olderAt: "front",
\* "back", or "any" place).  olderUnread of the older messages are not read.
\* The code takes the first MaxMessages in the order of db.List and does not
\* sort.
getChatMessagesFromDB_p1(db, older, listOk, unread, olderUnread) ==
    LET seen == ReadMessages(db, listOk, unread)
        olderSeen == IF listOk /\ older > olderUnread THEN older - olderUnread ELSE 0
        total == Min(Cardinality(DOMAIN seen) + olderSeen, MaxMessages)
        Splits == {s \in (0..Cardinality(DOMAIN seen)) \X (0..olderSeen) : s[1] + s[2] = total}
    IN  {[shown |-> SubSeq(o, 1, s[1]), older |-> s[2], olderAt |-> "any"] :
            o \in MessageOrders(seen), s \in Splits}

\* //export onUserUpdate (part_001)
onUserUpdate_p1(putOk) ==
    /\ inflight.kind = "userUpdate"
    /\ IF inflight.user.id = <<>> \/ inflight.user.username = <<>>
       THEN /\ usersDB' = usersDB
            /\ last' = "rejected"
       ELSE /\ usersDB' = IF putOk THEN DbPut(usersDB, inflight.user.id, inflight.user)
                          ELSE usersDB
            /\ last' = IF putOk THEN "stored" ELSE "saveFailed"
    /\ inflight' = None
    /\ UNCHANGED <<canvasDB, chatDB, blobDB, processedBatchIds, processedMessageIds, now, tasks,
                   canvasCache, olderMessages>>

\* //export onChatMessage (part_001)
onChatMessage_p1(getOk, putOk) ==
    /\ inflight.kind = "chat"
    /\ LET message == inflight.message
       IN  IF message.userId = <<>> \/ message.username = <<>> \/ message.message = <<>>
           THEN /\ chatDB' = chatDB
                /\ last' = "rejected"
           ELSE IF ~(getOk /\ message.userId \in DOMAIN usersDB)
           THEN /\ chatDB' = chatDB
                /\ last' = "userNotFound"
           ELSE /\ chatDB' = IF putOk THEN DbPut(chatDB, message.id, message) ELSE chatDB
                /\ last' = IF putOk THEN "stored" ELSE "saveFailed"
    /\ inflight' = None
    /\ UNCHANGED <<canvasDB, blobDB, processedBatchIds, processedMessageIds, now, tasks,
                   usersDB, canvasCache, olderMessages>>

\* onPixelUpdate (part_001), lines 546-556: the cache is loaded if it is not
\* valid, and the pixel is patched into the valid cache
UpdateCache_p1(db, cache, pixel, r) ==
    LET got == getCanvasFromDB_p1(db, r)
        loaded == IF cache.valid THEN cache
                  ELSE IF got.err THEN cache
                  ELSE [valid |-> TRUE, canvas |-> got.canvas]
    IN  [db |-> IF cache.valid THEN db ELSE got.db,
         cache |-> IF loaded.valid
                   THEN [loaded EXCEPT !.canvas = SetCellInside(loaded.canvas, pixel.x,
                                                                pixel.y, pixel.color)]
                   ELSE loaded]

\* A task runs onPixelUpdate (part_001) in its steps: the checks, the read
\* of the canvas, the write of the canvas, the write of the user, the patch
\* of the cache under cacheMutex.  Other handlers run between the steps.

\* lines 498-521 without the test that the user is online
BeginPixel_p1_NoOnlineTest(t, userGetOk) ==
    /\ inflight.kind = "pixel"
    /\ tasks[t].pc = "idle"
    /\ LET pixel == inflight.pixel
       IN  IF ~isValidPixel(pixel.x, pixel.y)
           THEN /\ last' = "rejected"
                /\ tasks' = tasks
           ELSE IF ~(userGetOk /\ pixel.userId \in DOMAIN usersDB)
           THEN /\ last' = "userNotFound"
                /\ tasks' = tasks
           ELSE /\ last' = last
                /\ tasks' = [tasks EXCEPT ![t] = [pc |-> "readCanvas", pixel |-> pixel,
                                                  user |-> usersDB[pixel.userId],
                                                  seen |-> now]]
    /\ inflight' = None
    /\ UNCHANGED <<canvasDB, chatDB, blobDB, processedBatchIds, processedMessageIds, now,
                   usersDB, canvasCache, olderMessages>>

Idle == [pc |-> "idle"]

\* lines 498-528: the coordinates, the user's record, the online test
BeginPixel_p1(t, userGetOk) ==
    /\ inflight.kind = "pixel"
    /\ tasks[t].pc = "idle"
    /\ LET pixel == inflight.pixel
       IN  IF ~isValidPixel(pixel.x, pixel.y)
           THEN /\ last' = "rejected"
                /\ tasks' = tasks
           ELSE IF ~(userGetOk /\ pixel.userId \in DOMAIN usersDB)
           THEN /\ last' = "userNotFound"
                /\ tasks' = tasks
           ELSE IF (now - usersDB[pixel.userId].lastSeen) > UserTimeout
           THEN /\ last' = "offline"
                /\ tasks' = tasks
           ELSE /\ last' = last
                /\ tasks' = [tasks EXCEPT ![t] = [pc |-> "readCanvas", pixel |-> pixel,
                                                  user |-> usersDB[pixel.userId],
                                                  seen |-> now]]
    /\ inflight' = None
    /\ UNCHANGED <<canvasDB, chatDB, blobDB, processedBatchIds, processedMessageIds, now,
                   usersDB, canvasCache, olderMessages>>

\* savePixelToDB, lines 149-157: the canvas is read and the pixel set in it
ReadCanvas_p1(t, r) ==
    /\ tasks[t].pc = "readCanvas"
    /\ LET got == getCanvasFromDB_p1(blobDB, r)
           pixel == tasks[t].pixel
       IN  /\ blobDB' = got.db
           /\ IF got.err
              THEN /\ tasks' = [tasks EXCEPT ![t] = Idle]
                   /\ last' = "saveFailed"
              ELSE /\ tasks' = [tasks EXCEPT ![t] =
                                   [pc |-> "putCanvas", pixel |-> pixel, user |-> tasks[t].user,
                                    seen |-> tasks[t].seen,
                                    canvas |-> SetCellInside(got.canvas, pixel.x, pixel.y,
                                                             pixel.color)]]
                   /\ last' = last
    /\ UNCHANGED <<canvasDB, chatDB, processedBatchIds, processedMessageIds, now, inflight,
                   usersDB, canvasCache, olderMessages>>

\* savePixelToDB, lines 159-165: the canvas is put back
PutCanvas_p1(t, putOk) ==
    /\ tasks[t].pc = "putCanvas"
    /\ IF putOk
       THEN /\ blobDB' = DbPut(blobDB, CANVAS_KEY, tasks[t].canvas)
            /\ tasks' = [tasks EXCEPT ![t] = [pc |-> "saveUser", pixel |-> tasks[t].pixel,
                                              user |-> tasks[t].user, seen |-> tasks[t].seen]]
            /\ last' = last
       ELSE /\ blobDB' = blobDB
            /\ tasks' = [tasks EXCEPT ![t] = Idle]
            /\ last' = "saveFailed"
    /\ UNCHANGED <<canvasDB, chatDB, processedBatchIds, processedMessageIds, now, inflight,
                   usersDB, canvasCache, olderMessages>>

\* lines 541-547: the user's statistics; an error of saveUserToDB is logged
SaveUser_p1(t, userPutOk) ==
    /\ tasks[t].pc = "saveUser"
    /\ LET user == [tasks[t].user EXCEPT !.pixelsPlaced = @ + 1, !.lastSeen = tasks[t].seen]
       IN  usersDB' = IF userPutOk THEN DbPut(usersDB, user.id, user) ELSE usersDB
    /\ tasks' = [tasks EXCEPT ![t] = [pc |-> "patch", pixel |-> tasks[t].pixel]]
    /\ UNCHANGED <<canvasDB, chatDB, blobDB, processedBatchIds, processedMessageIds, now,
                   inflight, last, canvasCache, olderMessages>>

\* lines 549-561: the cache, between cacheMutex.Lock() and Unlock()
PatchCache_p1(t, c) ==
    /\ tasks[t].pc = "patch"
    /\ LET cached == UpdateCache_p1(blobDB, canvasCache, tasks[t].pixel, c)
       IN  /\ blobDB' = cached.db
           /\ canvasCache' = cached.cache
    /\ tasks' = [tasks EXCEPT ![t] = Idle]
    /\ last' = "stored"
    /\ UNCHANGED <<canvasDB, chatDB, processedBatchIds, processedMessageIds, now, inflight,
                   usersDB, olderMessages>>

BeginStep_p1 == \E t \in DOMAIN tasks, userGetOk \in BOOLEAN : BeginPixel_p1(t, userGetOk)

ReadStep_p1 == \E t \in DOMAIN tasks, r \in ReadOutcomes : ReadCanvas_p1(t, r)

PutStep_p1 == \E t \in DOMAIN tasks, putOk \in BOOLEAN : PutCanvas_p1(t, putOk)

UserStep_p1 == \E t \in DOMAIN tasks, userPutOk \in BOOLEAN : SaveUser_p1(t, userPutOk)

PatchStep_p1 == \E t \in DOMAIN tasks, c \in ReadOutcomes : PatchCache_p1(t, c)

\* the "/chat" database holds no message, or nearly MaxMessages older ones
InitOlder == {0} \cup ((MaxMessages - Headroom)..MaxMessages)

InitPresence ==
    /\ canvasDB = <<>>
    /\ chatDB = <<>>
    /\ blobDB = <<>>
    /\ processedBatchIds = EmptyMap
    /\ processedMessageIds = EmptyMap
    /\ now = StartTime
    /\ inflight = None
    /\ tasks = NoTasks
    /\ last = "init"
    /\ usersDB = <<>>
    /\ canvasCache = NoCache
    /\ olderMessages \in InitOlder

DeliverPresence == Deliver(UserUpdates \cup ChatPosts)

OnUserUpdate_p1 == \E putOk \in BOOLEAN : onUserUpdate_p1(putOk)

OnChatMessage_p1 == \E getOk, putOk \in BOOLEAN : onChatMessage_p1(getOk, putOk)

\* a step of onPixelUpdate where one invocation runs at a time (as task 1),
\* with the other handlers between its steps
OnPixelUpdate_p1 ==
    \/ \E userGetOk \in BOOLEAN : BeginPixel_p1(1, userGetOk)
    \/ \E r \in ReadOutcomes : ReadCanvas_p1(1, r)
    \/ \E putOk \in BOOLEAN : PutCanvas_p1(1, putOk)
    \/ \E userPutOk \in BOOLEAN : SaveUser_p1(1, userPutOk)
    \/ \E c \in ReadOutcomes : PatchCache_p1(1, c)

\* the users and the chat of part_001
Next_p1 == DeliverPresence \/ OnUserUpdate_p1 \/ OnChatMessage_p1 \/ Advance

Spec_p1 == InitPresence /\ [][Next_p1]_vars

\* part_001 with an empty chat log
InitActivity_p1 ==
    /\ InitPresence!1 /\ InitPresence!2 /\ InitPresence!3 /\ InitPresence!4
    /\ InitPresence!5 /\ InitPresence!6 /\ InitPresence!7 /\ InitPresence!8
    /\ InitPresence!9 /\ InitPresence!10 /\ InitPresence!11
    /\ olderMessages = 0

-----------------------------------------------------------------------------
(* Validating variant (backend.go, third variant): usernames are checked,  *)
(* chat texts are sanitized, the chat log is read newest first             *)

Alnum ==
    HexDigits \cup
    {"g", "h", "i", "j", "k", "l", "m", "n", "o", "p", "q", "r", "s", "t", "u", "v", "w", "x",
     "y", "z", "G", "H", "I", "J", "K", "L", "M", "N", "O", "P", "Q", "R", "S", "T", "U", "V",
     "W", "X", "Y", "Z", "_"}

\* func isValidUsername
isValidUsername(username) ==
    /\ ~(ByteLen(username) < 3 \/ ByteLen(username) > 20)
    /\ \A i \in DOMAIN username : username[i] \in Alnum

\* the places where old occurs in s
Occurrences(s, old) ==
    {i \in 1..(Len(s) - Len(old) + 1) : SubSeq(s, i, i + Len(old) - 1) = old}

RECURSIVE RemoveAll(_, _)
\* strings.ReplaceAll(s, old, ""): the occurrences are taken from the left,
\* each search starting behind the occurrence before it
RemoveAll(s, old) ==
    IF Occurrences(s, old) = {} THEN s
    ELSE LET i == CHOOSE k \in Occurrences(s, old) : \A j \in Occurrences(s, old) : k <= j
         IN  SubSeq(s, 1, i - 1) \o RemoveAll(SubSeq(s, i + Len(old), Len(s)), old)

SCRIPT_OPEN == <<"<", "s", "c", "r", "i", "p", "t">>
SCRIPT_CLOSE == <<"<", "/", "s", "c", "r", "i", "p", "t", ">">>
JAVASCRIPT == <<"j", "a", "v", "a", "s", "c", "r", "i", "p", "t", ":">>

\* func sanitizeMessage
sanitizeMessage(message) ==
    LET cut == IF ByteLen(message) > 500 THEN ByteCut(message, 500) ELSE message
    IN  RemoveAll(RemoveAll(RemoveAll(cut, SCRIPT_OPEN), SCRIPT_CLOSE), JAVASCRIPT)

UserUpdates_v3 ==
    {[kind |-> "userUpdate", user |-> MkUser(U1, username, isOnline, lastSeen, 0)] :
        username \in {ANN, <<"n", "1">>, <<"a", "-", "b">>}, isOnline \in BOOLEAN,
        lastSeen \in {0, now}}

M3 == <<"m", "3">>

ChatPosts_v3 ==
    {[kind |-> "chat", message |-> MkMessage(id, U1, ANN, text, t)] :
        id \in {M1, M2, M3}, text \in {<<>>, ChatText, SCRIPT_OPEN, SCRIPT_OPEN \o ChatText},
        t \in {100, 200}}

\* func getChatMessagesFromDB (backend.go, third variant): the possible
\* answers.  The messages that were read (see ReadMessages) are sorted:
\* sort.Slice puts the newest first, messages of one timestamp in any order;
\* the first MaxMessages are kept, so the older messages of the answer come
\* after the ones shown.
getChatMessagesFromDB_v3(db, older, listOk, unread, olderUnread) ==
    LET seen == ReadMessages(db, listOk, unread)
        olderSeen == IF listOk /\ older > olderUnread THEN older - olderUnread ELSE 0
        n == Cardinality(DOMAIN seen)
        total == Min(n + olderSeen, MaxMessages)
        Sorted == {o \in MessageOrders(seen) :
                     \A i, j \in DOMAIN o : i < j => o[i].timestamp >= o[j].timestamp}
    IN  {[shown |-> SubSeq(o, 1, Min(n, total)), older |-> total - Min(n, total),
          olderAt |-> "back"] : o \in Sorted}

\* //export onUserUpdate (backend.go, third variant)
onUserUpdate_v3(putOk) ==
    /\ inflight.kind = "userUpdate"
    /\ IF inflight.user.id = <<>> \/ inflight.user.username = <<>>
          \/ ~isValidUsername(inflight.user.username)
       THEN /\ usersDB' = usersDB
            /\ last' = "rejected"
       ELSE /\ usersDB' = IF putOk THEN DbPut(usersDB, inflight.user.id, inflight.user)
                          ELSE usersDB
            /\ last' = IF putOk THEN "stored" ELSE "saveFailed"
    /\ inflight' = None
    /\ UNCHANGED <<canvasDB, chatDB, blobDB, processedBatchIds, processedMessageIds, now, tasks,
                   canvasCache, olderMessages>>

\* //export onChatMessage (backend.go, third variant)
onChatMessage_v3(getOk, putOk) ==
    /\ inflight.kind = "chat"
    /\ LET message == inflight.message
           clean == [message EXCEPT !.message = sanitizeMessage(message.message)]
       IN  IF message.userId = <<>> \/ message.username = <<>> \/ message.message = <<>>
              \/ ~isValidUsername(message.username) \/ clean.message = <<>>
           THEN /\ chatDB' = chatDB
                /\ last' = "rejected"
           ELSE IF ~(getOk /\ message.userId \in DOMAIN usersDB)
           THEN /\ chatDB' = chatDB
                /\ last' = "userNotFound"
           ELSE /\ chatDB' = IF putOk THEN DbPut(chatDB, clean.id, clean) ELSE chatDB
                /\ last' = IF putOk THEN "stored" ELSE "saveFailed"
    /\ inflight' = None
    /\ UNCHANGED <<canvasDB, blobDB, processedBatchIds, processedMessageIds, now, tasks,
                   usersDB, canvasCache, olderMessages>>

DeliverChat_v3 == Deliver(UserUpdates_v3 \cup ChatPosts_v3)

OnUserUpdate_v3 == \E putOk \in BOOLEAN : onUserUpdate_v3(putOk)

OnChatMessage_v3 == \E getOk, putOk \in BOOLEAN : onChatMessage_v3(getOk, putOk)

NextChat_v3 == DeliverChat_v3 \/ OnUserUpdate_v3 \/ OnChatMessage_v3

SpecChat_v3 == InitPresence /\ [][NextChat_v3]_vars

\* the answer lists its messages oldest first
OldestFirst(answer) ==
    /\ \A i, j \in DOMAIN answer.shown :
          i < j => answer.shown[i].timestamp <= answer.shown[j].timestamp
    /\ (answer.older > 0 /\ answer.shown # <<>>) => answer.olderAt = "front"

\* C13: whatever messages are stored, getMessages returns at most MaxMessages
\* entries and the returned sequence is non-decreasing in timestamp (oldest
\* first).  Stated for the reader of backend.go's third variant, whichever
\* of its store calls fail.
C13_AtMostMaxOldestFirst ==
    \A listOk \in BOOLEAN, unread \in SUBSET (DOMAIN chatDB), olderUnread \in 0..olderMessages :
    \A answer \in getChatMessagesFromDB_v3(chatDB, olderMessages, listOk, unread, olderUnread) :
        /\ Len(answer.shown) + answer.older <= MaxMessages
        /\ OldestFirst(answer)


\* every stored message the answer leaves out is no newer than the ones it
\* holds, and then it holds none of the older messages
HoldsNewest(db, answer) ==
    \A k \in DOMAIN db :
        \/ \E i \in DOMAIN answer.shown : answer.shown[i] = db[k]
        \/ /\ answer.older = 0
           /\ \A i \in DOMAIN answer.shown : answer.shown[i].timestamp >= db[k].timestamp

\* C14: when more than MaxMessages messages with pairwise distinct ids have
\* been accepted, getMessages returns exactly MaxMessages of them, the ones
\* with the greatest timestamps, ordered oldest first.  Stated for part_001
\* with a store that answers every call.
C14_NewestHundred ==
    (Cardinality(DOMAIN chatDB) + olderMessages > MaxMessages)
        => \A answer \in getChatMessagesFromDB_p1(chatDB, olderMessages, TRUE, {}, 0) :
              /\ Len(answer.shown) + answer.older = MaxMessages
              /\ HoldsNewest(chatDB, answer)
              /\ OldestFirst(answer)

-----------------------------------------------------------------------------
(* backend.go, third variant: the canvas under "canvas" with its cache.    *)
(* onPixelUpdate, getCanvas, initCanvas and resetCanvas run in steps, with *)
(* the other handlers between the steps.                                   *)

MaxPixelsPerUser == 1000

\* func getCanvasFromDB (backend.go, third variant), with initCanvas:
\* [err, db, canvas].  The canvas is created again when db.Get returns an
\* error, when the bytes do not parse and when the grid has no row or no
\* column.
getCanvasFromDB_v3(db, r) ==
    IF /\ r.get1
       /\ CANVAS_KEY \in DOMAIN db
       /\ Parses(db[CANVAS_KEY])
       /\ GridHeight(db[CANVAS_KEY]) > 0
       /\ GridWidth(db[CANVAS_KEY]) > 0
    THEN [err |-> FALSE, db |-> db, canvas |-> db[CANVAS_KEY]]
    ELSE IF ~r.create
    THEN [err |-> TRUE, db |-> db, canvas |-> EmptyGrid]
    ELSE [err |-> ~r.get2, db |-> DbPut(db, CANVAS_KEY, EmptyGrid), canvas |-> EmptyGrid]

\* onPixelUpdate, lines 1439-1481: the coordinates, the colour, the user's
\* record, the online test, the pixel limit
BeginPixel_v3(t, userGetOk) ==
    /\ inflight.kind = "pixel"
    /\ tasks[t].pc = "idle"
    /\ LET pixel == inflight.pixel
           status ==
               IF ~isValidPixel(pixel.x, pixel.y) \/ ~isValidColorV3(pixel.color)
               THEN "rejected"
               ELSE IF ~(userGetOk /\ pixel.userId \in DOMAIN usersDB) THEN "userNotFound"
               ELSE IF (now - usersDB[pixel.userId].lastSeen) > UserTimeout THEN "offline"
               ELSE IF usersDB[pixel.userId].pixelsPlaced >= MaxPixelsPerUser
               THEN "limitReached"
               ELSE "accepted"
       IN  IF status = "accepted"
           THEN /\ last' = last
                /\ tasks' = [tasks EXCEPT ![t] = [pc |-> "readCanvas", pixel |-> pixel,
                                                  user |-> usersDB[pixel.userId],
                                                  seen |-> now]]
           ELSE /\ last' = status
                /\ tasks' = tasks
    /\ inflight' = None
    /\ UNCHANGED <<canvasDB, chatDB, blobDB, processedBatchIds, processedMessageIds, now,
                   usersDB, canvasCache, olderMessages>>

\* savePixelToDB, lines 1041-1050: the canvas is read and the pixel set in it
ReadCanvas_v3(t, r) ==
    /\ tasks[t].pc = "readCanvas"
    /\ LET got == getCanvasFromDB_v3(blobDB, r)
           pixel == tasks[t].pixel
       IN  /\ blobDB' = got.db
           /\ IF got.err
              THEN /\ tasks' = [tasks EXCEPT ![t] = Idle]
                   /\ last' = "saveFailed"
              ELSE /\ tasks' = [tasks EXCEPT ![t] =
                                   [pc |-> "putCanvas", pixel |-> pixel, user |-> tasks[t].user,
                                    seen |-> tasks[t].seen,
                                    canvas |-> SetCellInside(got.canvas, pixel.x, pixel.y,
                                                             pixel.color)]]
                   /\ last' = last
    /\ UNCHANGED <<canvasDB, chatDB, processedBatchIds, processedMessageIds, now, inflight,
                   usersDB, canvasCache, olderMessages>>

\* savePixelToDB, lines 1052-1058: the canvas is put back, as in part_001
PutCanvas_v3(t, putOk) == PutCanvas_p1(t, putOk)

\* lines 1492-1498: the user's statistics, as in part_001
SaveUser_v3(t, userPutOk) == SaveUser_p1(t, userPutOk)

\* lines 1500-1512: the cache, between cacheMutex.Lock() and Unlock()
PatchCache_v3(t, r) ==
    /\ tasks[t].pc = "patch"
    /\ LET got == getCanvasFromDB_v3(blobDB, r)
           pixel == tasks[t].pixel
           loaded == IF canvasCache.valid \/ got.err THEN canvasCache
                     ELSE [valid |-> TRUE, canvas |-> got.canvas]
       IN  /\ blobDB' = IF canvasCache.valid THEN blobDB ELSE got.db
           /\ canvasCache' = IF loaded.valid
                             THEN [loaded EXCEPT !.canvas = SetCellInside(loaded.canvas, pixel.x,
                                                                          pixel.y, pixel.color)]
                             ELSE loaded
    /\ tasks' = [tasks EXCEPT ![t] = Idle]
    /\ last' = "stored"
    /\ UNCHANGED <<canvasDB, chatDB, processedBatchIds, processedMessageIds, now, inflight,
                   usersDB, olderMessages>>

\* getCanvas, lines 1218-1233: the cache is tested, and a valid one is
\* serialized, under the read lock
BeginGetCanvas_v3(t) ==
    /\ inflight.kind = "getCanvas"
    /\ tasks[t].pc = "idle"
    /\ IF canvasCache.valid /\ GridHeight(canvasCache.canvas) > 0
       THEN /\ last' = "servedFromCache"
            /\ tasks' = tasks
       ELSE /\ last' = last
            /\ tasks' = [tasks EXCEPT ![t] = [pc |-> "readStore"]]
    /\ inflight' = None
    /\ UNCHANGED <<canvasDB, chatDB, blobDB, processedBatchIds, processedMessageIds, now,
                   usersDB, canvasCache, olderMessages>>

\* getCanvas, lines 1235-1253: after RUnlock the canvas comes from
\* getCanvasFromDB
ReadStore_v3(t, r) ==
    /\ tasks[t].pc = "readStore"
    /\ LET got == getCanvasFromDB_v3(blobDB, r)
       IN  /\ blobDB' = got.db
           /\ last' = IF got.err THEN "readFailed" ELSE "servedFromStore"
    /\ tasks' = [tasks EXCEPT ![t] = Idle]
    /\ UNCHANGED <<canvasDB, chatDB, processedBatchIds, processedMessageIds, now, inflight,
                   usersDB, canvasCache, olderMessages>>

\* //export initCanvas (initCanvasHandler), lines 1373-1377: func initCanvas
\* puts the blank canvas
BeginInit_v3(t, putOk) ==
    /\ inflight.kind = "initCanvas"
    /\ tasks[t].pc = "idle"
    /\ IF putOk
       THEN /\ blobDB' = DbPut(blobDB, CANVAS_KEY, EmptyGrid)
            /\ tasks' = [tasks EXCEPT ![t] = [pc |-> "dropCache", then |-> "answer"]]
            /\ last' = last
       ELSE /\ blobDB' = blobDB
            /\ tasks' = tasks
            /\ last' = "500"
    /\ inflight' = None
    /\ UNCHANGED <<canvasDB, chatDB, processedBatchIds, processedMessageIds, now, usersDB,
                   canvasCache, olderMessages>>

\* //export resetCanvas (resetCanvasHandler) with func resetCanvas, lines
\* 949-959: the canvas is deleted; an error of db.Delete is logged
BeginReset_v3(t, deleteOk) ==
    /\ inflight.kind = "resetCanvas"
    /\ tasks[t].pc = "idle"
    /\ blobDB' = IF deleteOk THEN DbDelete(blobDB, CANVAS_KEY) ELSE blobDB
    /\ tasks' = [tasks EXCEPT ![t] = [pc |-> "dropCache", then |-> "recreate"]]
    /\ inflight' = None
    /\ UNCHANGED <<canvasDB, chatDB, processedBatchIds, processedMessageIds, now, last,
                   usersDB, canvasCache, olderMessages>>

\* lines 1379-1383 of initCanvasHandler and 961-965 of resetCanvas: the
\* cache is dropped between cacheMutex.Lock() and Unlock()
DropCache_v3(t) ==
    /\ tasks[t].pc = "dropCache"
    /\ canvasCache' = NoCache
    /\ IF tasks[t].then = "answer"
       THEN /\ tasks' = [tasks EXCEPT ![t] = Idle]
            /\ last' = "initialized"
       ELSE /\ tasks' = [tasks EXCEPT ![t] = [pc |-> "recreate"]]
            /\ last' = last
    /\ UNCHANGED <<canvasDB, chatDB, blobDB, processedBatchIds, processedMessageIds, now,
                   inflight, usersDB, olderMessages>>

\* resetCanvas, line 968: return initCanvas()
Recreate_v3(t, putOk) ==
    /\ tasks[t].pc = "recreate"
    /\ blobDB' = IF putOk THEN DbPut(blobDB, CANVAS_KEY, EmptyGrid) ELSE blobDB
    /\ last' = IF putOk THEN "reset" ELSE "500"
    /\ tasks' = [tasks EXCEPT ![t] = Idle]
    /\ UNCHANGED <<canvasDB, chatDB, processedBatchIds, processedMessageIds, now, inflight,
                   usersDB, canvasCache, olderMessages>>

\* the store of the canvas and the chat log are empty
InitActivity_v3 ==
    /\ InitPresence!1 /\ InitPresence!2
    /\ blobDB = <<>>
    /\ InitPresence!4 /\ InitPresence!5 /\ InitPresence!6 /\ InitPresence!7
    /\ InitPresence!8 /\ InitPresence!9 /\ InitPresence!10 /\ InitPresence!11
    /\ olderMessages = 0

\* a user joins, at the pixel limit or far from it
ActivityUpdates ==
    {[kind |-> "userUpdate", user |-> MkUser(U1, ANN, TRUE, now, pixelsPlaced)] :
        pixelsPlaced \in {0, MaxPixelsPerUser}}

ActivityPosts == {[kind |-> "chat", message |-> MkMessage(M1, U1, ANN, ChatText, 100)]}

\* the pixels the model still delivers: the placements counted and under way
\* stay within MaxPlaced, or the user is at the pixel limit
ActivityPixels ==
    IF \A n \in PlacedCounts : n + Cardinality(Busy) < MaxPlaced \/ n >= MaxPixelsPerUser
    THEN {[kind |-> "pixel", pixel |-> MkPixel(1, 2, color)] :
             color \in {RED, <<"#", "z", "z", "z", "z", "z", "0">>}}
            \cup {[kind |-> "pixel", pixel |-> MkPixel(100, 4, RED)]}
    ELSE {}

DeliverActivity_v3 ==
    Deliver(ActivityUpdates \cup ActivityPosts \cup ActivityPixels
                \cup {[kind |-> "getCanvas"], [kind |-> "initCanvas"], [kind |-> "resetCanvas"]})

\* a step of onPixelUpdate, one invocation at a time (as task 1)
OnPixelUpdate_v3 ==
    \/ \E userGetOk \in BOOLEAN : BeginPixel_v3(1, userGetOk)
    \/ \E r \in ReadOutcomes : ReadCanvas_v3(1, r)
    \/ \E putOk \in BOOLEAN : PutCanvas_v3(1, putOk)
    \/ \E userPutOk \in BOOLEAN : SaveUser_v3(1, userPutOk)
    \/ \E r \in ReadOutcomes : PatchCache_v3(1, r)

\* a step of getCanvas, initCanvas or resetCanvas, one invocation at a time
\* (as task 2)
CanvasHandlers_v3 ==
    \/ BeginGetCanvas_v3(2)
    \/ \E r \in ReadOutcomes : ReadStore_v3(2, r)
    \/ \E putOk \in BOOLEAN : BeginInit_v3(2, putOk)
    \/ \E deleteOk \in BOOLEAN : BeginReset_v3(2, deleteOk)
    \/ DropCache_v3(2)
    \/ \E putOk \in BOOLEAN : Recreate_v3(2, putOk)

NextActivity_v3 ==
    \/ DeliverActivity_v3
    \/ OnUserUpdate_v3
    \/ OnChatMessage_v3
    \/ OnPixelUpdate_v3
    \/ CanvasHandlers_v3
    \/ Advance

SpecActivity_v3 == InitActivity_v3 /\ [][NextActivity_v3]_vars

\* C20: every successful pixel placement and every successfully posted chat
\* message sets the author's stored lastSeen to the current time (for a
\* pixel, the time its handler read when it tested the user).  Stated for
\* backend.go's third variant.
C20_ActivityTouches ==
    [][/\ (inflight.kind = "chat" /\ inflight' = None /\ last' = "stored")
          => /\ inflight.message.userId \in DOMAIN usersDB'
             /\ usersDB'[inflight.message.userId].lastSeen = now'
       /\ \A t \in DOMAIN tasks :
             (tasks[t].pc = "saveUser" /\ tasks'[t].pc = "patch")
                => /\ tasks[t].pixel.userId \in DOMAIN usersDB'
                   /\ usersDB'[tasks[t].pixel.userId].lastSeen = tasks[t].seen]_vars

-----------------------------------------------------------------------------
(* Per-cell-key variant (part_000): reading the chat log                   *)

\* //export getMessages (part_000): the possible answers for a room, as
\* sequences of messages.  A key counts when something follows the room's
\* prefix and Sscanf reads a number there; the messages are sorted by
\* timestamp, oldest first, and the last 100 are kept.  If mayFail, the store
\* can fail: when db.List does, the answer is empty; when db.Get of a key does
\* (or json.Unmarshal rejects its record), the key is passed over.
getMessages(db, room, mayFail) ==
    LET prefix == RoomPrefix(room)
        keys == {k \in ListKeys(db, prefix) :
                    /\ Len(k) > Len(prefix)
                    /\ ScanInt(SubSeq(k, Len(prefix) + 1, Len(k)), 1, 64).ok}
        Sorted(read) ==
            {[i \in DOMAIN o |-> db[o[i]]] : o \in
                {o \in Orders(read) :
                    \A i, j \in DOMAIN o : i < j => db[o[i]].timestamp <= db[o[j]].timestamp}}
        Answers(read) ==
            {IF Len(s) > 100 THEN SubSeq(s, Len(s) - 100 + 1, Len(s)) ELSE s : s \in Sorted(read)}
    IN  UNION {Answers(keys \ unread) : unread \in (IF mayFail THEN SUBSET keys ELSE {{}})}
            \cup (IF mayFail THEN {<<>>} ELSE {})

\* C15: appending a chat message never removes or overwrites a different
\* message of the same room while the room holds fewer than MaxMessages
\* messages: every message getMessages returned before onChatMessages stored
\* a message is still returned afterwards (also when both carry the same
\* timestamp).  Stated for part_000.
C15_AppendKeepsOthers ==
    [][(inflight.kind = "chatMessage" /\ last' = "stored")
          => \A before \in getMessages(chatDB, EffectiveRoom(inflight.room), FALSE),
                after \in getMessages(chatDB', EffectiveRoom(inflight.room), FALSE) :
                \A i \in DOMAIN before : \E j \in DOMAIN after : after[j].id = before[i].id]_vars

-----------------------------------------------------------------------------
(* Cached whole-canvas variant (part_002): the user list under "users",    *)
(* the chat list under "messages"                                          *)

\* the substrings part_002 removes, in the order it removes them
Denylist_p2 ==
    <<SCRIPT_OPEN, SCRIPT_CLOSE, JAVASCRIPT,
      <<"o", "n", "l", "o", "a", "d", "=">>,
      <<"o", "n", "e", "r", "r", "o", "r", "=">>,
      <<"o", "n", "c", "l", "i", "c", "k", "=">>>>

RECURSIVE RemoveEach(_, _, _)
\* the ReplaceAll calls one after the other
RemoveEach(s, patterns, i) ==
    IF i > Len(patterns) THEN s ELSE RemoveEach(RemoveAll(s, patterns[i]), patterns, i + 1)

\* the characters unicode.IsSpace holds for
WhiteSpace == SpaceChars \cup {"\n"}

RECURSIVE TrimLeft(_)
TrimLeft(s) == IF s # <<>> /\ s[1] \in WhiteSpace THEN TrimLeft(Tail(s)) ELSE s

RECURSIVE TrimRight(_)
TrimRight(s) ==
    IF s # <<>> /\ s[Len(s)] \in WhiteSpace THEN TrimRight(SubSeq(s, 1, Len(s) - 1)) ELSE s

\* strings.TrimSpace
TrimSpace(s) == TrimRight(TrimLeft(s))

\* func sanitizeMessage (part_002)
sanitizeMessage_p2(message) ==
    LET removed == RemoveEach(message, Denylist_p2, 1)
        cut == IF ByteLen(removed) > 500 THEN ByteCut(removed, 500) ELSE removed
    IN  TrimSpace(cut)


U2 == <<"u", "2">>

\* type User struct (part_002)
MkUser_p2(id, username, color, isOnline, lastSeen, pixelsPlaced) ==
    [id |-> id, username |-> username, color |-> color, isOnline |-> isOnline,
     lastSeen |-> lastSeen, pixelsPlaced |-> pixelsPlaced]

\* func isValidUsername (part_002)
isValidUsername_p2(username) ==
    ByteLen(username) >= 1 /\ ByteLen(username) <= 20
    /\ ~ContainsAny(username, {"<", ">", "\"", "'", "&"})

\* an update of an online user seen now: names and colours of more bytes
\* than characters
MkUpdate_p2(id, username, color) ==
    [kind |-> "userUpdate", user |-> MkUser_p2(id, username, color, TRUE, now, 0)]

UserUpdates_p2 ==
    {[kind |-> "userUpdate",
      user |-> MkUser_p2(id, username, color, isOnline, lastSeen, pixelsPlaced)] :
        id \in {U1, U2}, username \in {ANN, <<"<", "b">>}, color \in {RED, <<"#", "f", "f", "f">>},
        isOnline \in BOOLEAN, lastSeen \in {0, now}, pixelsPlaced \in {0, 1}}
        \cup {MkUpdate_p2(U1, [i \in 1..11 |-> "U+00A0"], RED),
              MkUpdate_p2(U1, ANN, <<"#", "U+00A0", "f", "f", "f", "f">>)}

\* func getUsersFromDB (part_002): the users of the answer.  usersDB holds the
\* list stored under "users", each user under its id.
getUsersFromDB_p2(db, clock, getOk) ==
    IF getOk
    THEN {db[k] : k \in {k \in DOMAIN db :
                            db[k].isOnline /\ (clock - db[k].lastSeen) < UserTimeout}}
    ELSE {}

\* func saveUserToDB (part_002): the list written under "users"
saveUserToDB_p2(db, clock, user, getOk) ==
    LET users == getUsersFromDB_p2(db, clock, getOk)
        ids == {u.id : u \in users} \cup {user.id}
    IN  [id \in ids |-> IF id = user.id THEN user ELSE db[id]]

\* //export onUserUpdate (part_002), lines 636-664 up to the db.Get("users")
\* of getUsersFromDB (220) under saveUserToDB: the record is checked, the
\* stored list is read and the list to write is built (242-266)
onUserUpdate_p2(t, getOk) ==
    /\ inflight.kind = "userUpdate"
    /\ tasks[t].pc = "idle"
    /\ IF ~isValidUsername_p2(inflight.user.username) \/ ~isValidColor(inflight.user.color)
       THEN /\ tasks' = tasks
            /\ last' = "rejected"
       ELSE /\ tasks' = [tasks EXCEPT ![t] =
                            [pc |-> "putUsers", user |-> inflight.user,
                             users |-> saveUserToDB_p2(usersDB, now, inflight.user, getOk)]]
            /\ last' = last
    /\ inflight' = None
    /\ UNCHANGED <<canvasDB, chatDB, blobDB, processedBatchIds, processedMessageIds, now,
                   usersDB, canvasCache, olderMessages>>

\* saveUserToDB, line 273: db.Put("users", usersData) of the list built from
\* what was read; the handler returns 0, or 1 when the Put fails
PutUsers_p2(t, putOk) ==
    /\ tasks[t].pc = "putUsers"
    /\ usersDB' = IF putOk THEN tasks[t].users ELSE usersDB
    /\ last' = IF putOk THEN "stored" ELSE "saveFailed"
    /\ tasks' = [tasks EXCEPT ![t] = Idle]
    /\ UNCHANGED <<canvasDB, chatDB, blobDB, processedBatchIds, processedMessageIds, now,
                   inflight, canvasCache, olderMessages>>

MESSAGES_KEY == <<"m", "e", "s", "s", "a", "g", "e", "s">>

\* sort.Slice with messages[i].Timestamp > messages[j].Timestamp: the newest
\* first, messages of one timestamp in any order
NewestFirst(messages) ==
    {o \in {[i \in DOMAIN messages |-> messages[p[i]]] :
                p \in {q \in [DOMAIN messages -> DOMAIN messages] :
                          \A i, j \in DOMAIN messages : i # j => q[i] # q[j]}} :
        \A i, j \in DOMAIN o : i < j => o[i].timestamp >= o[j].timestamp}

\* messages[:MaxMessages]
FirstMessages(messages) ==
    IF Len(messages) > MaxMessages THEN SubSeq(messages, 1, MaxMessages) ELSE messages

\* func getChatMessagesFromDB (part_002): the possible answers; the list is
\* empty when db.Get returns an error
getChatMessagesFromDB_p2(db, getOk) ==
    IF getOk /\ MESSAGES_KEY \in DOMAIN db
    THEN {FirstMessages(o) : o \in NewestFirst(db[MESSAGES_KEY])}
    ELSE {<<>>}

\* func saveChatMessageToDB (part_002): the lists it may put under "messages"
saveChatMessageToDB_p2(db, message, getOk) ==
    UNION {{FirstMessages(o) : o \in NewestFirst(Append(messages, message))} :
              messages \in getChatMessagesFromDB_p2(db, getOk)}

\* //export onChatMessage (part_002), lines 670-700 up to the
\* db.Get("messages") of getChatMessagesFromDB (282) under saveChatMessageToDB:
\* the message is checked and sanitized, the stored list is read and the list
\* to write is built (311-326)
onChatMessage_p2(t, getOk) ==
    /\ inflight.kind = "chat"
    /\ tasks[t].pc = "idle"
    /\ LET message == [inflight.message EXCEPT
                          !.message = sanitizeMessage_p2(inflight.message.message)]
       IN  IF ~isValidUsername_p2(message.username) \/ message.message = <<>>
           THEN /\ tasks' = tasks
                /\ last' = "rejected"
           ELSE /\ \E messages \in saveChatMessageToDB_p2(chatDB, message, getOk) :
                      tasks' = [tasks EXCEPT ![t] = [pc |-> "putMessages", message |-> message,
                                                     messages |-> messages]]
                /\ last' = last
    /\ inflight' = None
    /\ UNCHANGED <<canvasDB, chatDB, blobDB, processedBatchIds, processedMessageIds, now,
                   usersDB, canvasCache, olderMessages>>

\* saveChatMessageToDB, line 334: db.Put("messages", messagesData)
PutMessages_p2(t, putOk) ==
    /\ tasks[t].pc = "putMessages"
    /\ chatDB' = IF putOk THEN DbPut(chatDB, MESSAGES_KEY, tasks[t].messages) ELSE chatDB
    /\ last' = IF putOk THEN "stored" ELSE "saveFailed"
    /\ tasks' = [tasks EXCEPT ![t] = Idle]
    /\ UNCHANGED <<canvasDB, blobDB, processedBatchIds, processedMessageIds, now, inflight,
                   usersDB, canvasCache, olderMessages>>

\* the tasks that are between the Get and the Put of a list
Saving_p2 == {t \in DOMAIN tasks : tasks[t].pc # "idle"}

\* chat messages as a publisher can send them, while the list is short
ChatPosts_p2 ==
    IF \E m \in getChatMessagesFromDB_p2(chatDB, TRUE) : Len(m) + Cardinality(Saving_p2) >= MaxChat
    THEN {}
    ELSE {[kind |-> "chat", message |-> MkMessage(id, U1, username, text, t)] :
             id \in {M1, M2}, username \in {ANN, <<"<", "b">>},
             text \in {<<"\f">> \o ChatText \o <<" ">>, <<" ", "U+00A0">>},
             t \in {100, 200}}

DeliverUser_p2 == Deliver(UserUpdates_p2)

DeliverChat_p2 == Deliver(ChatPosts_p2)

OnChatMessage_p2 == \E t \in DOMAIN tasks, getOk \in BOOLEAN : onChatMessage_p2(t, getOk)

PutMessagesStep_p2 == \E t \in DOMAIN tasks, putOk \in BOOLEAN : PutMessages_p2(t, putOk)

OnUserUpdate_p2 == \E t \in DOMAIN tasks, getOk \in BOOLEAN : onUserUpdate_p2(t, getOk)

PutUsersStep_p2 == \E t \in DOMAIN tasks, putOk \in BOOLEAN : PutUsers_p2(t, putOk)

\* the user list, the deliveries handled one after the other
OnUserUpdateAlone_p2 == \E getOk \in BOOLEAN : onUserUpdate_p2(1, getOk)

NextUsers_p2 == DeliverUser_p2 \/ OnUserUpdateAlone_p2 \/ PutUsersStep_p2 \/ Advance

SpecUsers_p2 == Init /\ [][NextUsers_p2]_vars

\* the user list, two handlers at the same time: both can be between their
\* Get and their Put
ConcUpdates_p2 ==
    {[kind |-> "userUpdate", user |-> MkUser_p2(id, ANN, RED, TRUE, now, pixelsPlaced)] :
        id \in {U1, U2}, pixelsPlaced \in {0, 1}}

DeliverUserConc_p2 == Deliver(ConcUpdates_p2)

NextUsersConc_p2 == DeliverUserConc_p2 \/ OnUserUpdate_p2 \/ PutUsersStep_p2

SpecUsersConc_p2 == Init /\ [][NextUsersConc_p2]_vars

\* the chat list, likewise
NextChatList_p2 == DeliverChat_p2 \/ OnChatMessage_p2 \/ PutMessagesStep_p2

SpecChatList_p2 == Init /\ [][NextChatList_p2]_vars

\* C16: a user whose lastSeen is older than the online timeout is absent from
\* the online list of getUsers, while the stored record stays under its id
\* with its pixelsPlaced: saving another user's record never deletes it.
\* Stated for part_002.
C16_OfflineRecordKept ==
    [][/\ \A id \in DOMAIN usersDB :
             (now - usersDB[id].lastSeen) > UserTimeout
                 => usersDB[id] \notin getUsersFromDB_p2(usersDB, now, TRUE)
       /\ \A t \in DOMAIN tasks :
             (tasks[t].pc = "putUsers" /\ tasks'[t].pc = "idle")
                 => \A id \in (DOMAIN usersDB) \ {tasks[t].user.id} :
                       /\ id \in DOMAIN usersDB'
                       /\ usersDB'[id].pixelsPlaced = usersDB[id].pixelsPlaced]_vars


\* C17: the online list of getUsers holds exactly the stored users with
\* now - lastSeen <= UserTimeout (a user exactly at the timeout is still
\* online), whatever isOnline flag the record stores.  Stated for part_002.
C17_OnlineWithinTimeout ==
    getUsersFromDB_p2(usersDB, now, TRUE)
        = {usersDB[id] : id \in {id \in DOMAIN usersDB :
                                    (now - usersDB[id].lastSeen) <= UserTimeout}}

-----------------------------------------------------------------------------
(* Request-driven variant (part_003): joinGame, leaveGame, getUsers        *)

\* type User struct (part_003)
MkUser_p3(id, username, color, isOnline, lastSeen, pixelsPlaced, cooldownEnds) ==
    [id |-> id, username |-> username, color |-> color, isOnline |-> isOnline,
     lastSeen |-> lastSeen, pixelsPlaced |-> pixelsPlaced, cooldownEnds |-> cooldownEnds]

JoinRequests ==
    {[kind |-> "joinGame", username |-> username, userId |-> id] :
        username \in {<<>>, ANN}, id \in {<<>>, U1, U2}}

LeaveRequests == {[kind |-> "leaveGame", userId |-> id] : id \in {<<>>, U1, U2}}

\* func getUsersFromDB (part_003): the users of the answer, every stored user
\* with isOnline set from the clock
\* (listOk: db.List succeeded; unread: the keys whose db.Get failed)
getUsersFromDB_p3(db, clock, listOk, unread) ==
    IF listOk
    THEN {[db[k] EXCEPT !.isOnline = (clock - db[k].lastSeen < 30000)] :
            k \in (DOMAIN db) \ unread}
    ELSE {}

\* //export joinGame (part_003); the colour is drawn from the clock
joinGame(color, putOk) ==
    /\ inflight.kind = "joinGame"
    /\ IF inflight.username = <<>> \/ inflight.userId = <<>>
       THEN /\ usersDB' = usersDB
            /\ last' = "rejected"
       ELSE LET user == MkUser_p3(inflight.userId, inflight.username, color, TRUE, now, 0, 0)
            IN  /\ usersDB' = IF putOk THEN DbPut(usersDB, user.id, user) ELSE usersDB
                /\ last' = IF putOk THEN "joined" ELSE "saveFailed"
    /\ inflight' = None
    /\ UNCHANGED <<canvasDB, chatDB, blobDB, processedBatchIds, processedMessageIds, now, tasks,
                   canvasCache, olderMessages>>

\* //export leaveGame (part_003), lines 499-524: the header is checked, the
\* user's record is read with db.Get(userID) (514) and marked offline in the
\* handler's copy
leaveGame(t, getOk) ==
    /\ inflight.kind = "leaveGame"
    /\ tasks[t].pc = "idle"
    /\ LET status == IF inflight.userId = <<>> THEN "rejected"
                     ELSE IF ~(getOk /\ inflight.userId \in DOMAIN usersDB) THEN "userNotFound"
                     ELSE "found"
       IN  IF status = "found"
           THEN /\ tasks' = [tasks EXCEPT ![t] =
                                [pc |-> "saveLeft",
                                 user |-> [usersDB[inflight.userId] EXCEPT !.isOnline = FALSE,
                                                                           !.lastSeen = now]]]
                /\ last' = last
           ELSE /\ tasks' = tasks
                /\ last' = status
    /\ inflight' = None
    /\ UNCHANGED <<canvasDB, chatDB, blobDB, processedBatchIds, processedMessageIds, now,
                   usersDB, canvasCache, olderMessages>>

\* leaveGame, line 529: saveUserToDB(user), the db.Put(user.ID) of line 250
SaveLeft_p3(t, putOk) ==
    /\ tasks[t].pc = "saveLeft"
    /\ usersDB' = IF putOk THEN DbPut(usersDB, tasks[t].user.id, tasks[t].user) ELSE usersDB
    /\ last' = IF putOk THEN "left" ELSE "saveFailed"
    /\ tasks' = [tasks EXCEPT ![t] = Idle]
    /\ UNCHANGED <<canvasDB, chatDB, blobDB, processedBatchIds, processedMessageIds, now,
                   inflight, canvasCache, olderMessages>>

DeliverRequest_p3 == Deliver(JoinRequests \cup LeaveRequests)

JoinGame == \E color \in {RED, BLUE}, putOk \in BOOLEAN : joinGame(color, putOk)

LeaveGame == \E t \in DOMAIN tasks, getOk \in BOOLEAN : leaveGame(t, getOk)

SaveLeftStep == \E t \in DOMAIN tasks, putOk \in BOOLEAN : SaveLeft_p3(t, putOk)

Next_p3 == DeliverRequest_p3 \/ JoinGame \/ LeaveGame \/ SaveLeftStep \/ Advance

Spec_p3 == Init /\ [][Next_p3]_vars

\* C18: after leaveGame succeeded for a user, a getUsers with no time elapsed
\* in between reports that user as offline, and the user's record still
\* exists.
C18_LeaveMeansOffline ==
    [][\A t \in DOMAIN tasks :
          (tasks[t].pc = "saveLeft" /\ tasks'[t].pc = "idle" /\ last' = "left")
             => /\ tasks[t].user.id \in DOMAIN usersDB'
                /\ \A user \in getUsersFromDB_p3(usersDB', now', TRUE, {}) :
                      user.id = tasks[t].user.id => ~user.isOnline]_vars


\* C19: after a join is accepted (a user upsert delivered to onUserUpdate),
\* the stored user has lastSeen equal to the current time and an immediately
\* following getUsers includes the user, whatever lastSeen and isOnline the
\* payload carried.  Stated for part_001.
C19_JoinMeansOnline ==
    [][(inflight.kind = "userUpdate" /\ inflight' = None /\ last' = "stored")
          => /\ inflight.user.id \in DOMAIN usersDB'
             /\ usersDB'[inflight.user.id].lastSeen = now'
             /\ \E user \in getUsersFromDB_p1(usersDB', now', TRUE, {}) :
                   user.id = inflight.user.id]_vars

-----------------------------------------------------------------------------
(* Presence-gated variant (part_001): two onPixelUpdate tasks at once      *)

\* a user joins: the upsert its client publishes
JoinUpdates == {[kind |-> "userUpdate", user |-> MkUser(U1, ANN, TRUE, now, 0)]}

ConcPixels_p1 ==
    IF \A n \in PlacedCounts : n + Cardinality(Busy) < MaxPlaced
    THEN {[kind |-> "pixel", pixel |-> MkPixel(c[1], c[2], RED)] : c \in {<<1, 2>>, <<3, 4>>}}
    ELSE {}

DeliverConc_p1 == Deliver(JoinUpdates \cup ConcPixels_p1)

NextConc_p1 ==
    \/ DeliverConc_p1
    \/ OnUserUpdate_p1
    \/ BeginStep_p1
    \/ ReadStep_p1
    \/ PutStep_p1
    \/ UserStep_p1
    \/ PatchStep_p1

SpecConc_p1 == Init /\ [][NextConc_p1]_vars

\* the canvas a read of the store returns: the stored one, or the blank one
\* that getCanvasFromDB creates
StoredCanvas(db) == IF CANVAS_KEY \in DOMAIN db THEN db[CANVAS_KEY] ELSE EmptyGrid

\* C21: whenever the cache is marked valid and no handler is in flight, the
\* cached grid equals the canvas persisted in the store cell for cell, after
\* any interleaving of concurrent onPixelUpdate tasks.
C21_CacheEqualsStore ==
    (canvasCache.valid /\ inflight = None /\ \A t \in DOMAIN tasks : tasks[t].pc = "idle")
        => SameGrid(canvasCache.canvas, StoredCanvas(blobDB))

-----------------------------------------------------------------------------
(* Presence-gated variant (part_001): the getCanvas and initCanvas         *)
(* handlers with the cache                                                 *)

\* //export getCanvas (part_001): [err, db, canvas, cache, hit].  A valid
\* cache (the cached grid has its CanvasHeight rows whenever it is valid) is
\* served under the read lock; otherwise the canvas comes from
\* getCanvasFromDB and the cache is left as it is.
getCanvas_p1(db, cache, r) ==
    IF cache.valid /\ GridHeight(cache.canvas) > 0
    THEN [err |-> FALSE, db |-> db, canvas |-> cache.canvas, cache |-> cache, hit |-> TRUE]
    ELSE LET got == getCanvasFromDB_p1(db, r)
         IN  [err |-> got.err, db |-> got.db, canvas |-> got.canvas, cache |-> cache,
              hit |-> FALSE]

\* the getCanvas handler, lines 319-331: the cache is tested, and a valid one
\* is serialized, under the read lock
BeginGetCanvas_p1(t) ==
    /\ inflight.kind = "getCanvas"
    /\ tasks[t].pc = "idle"
    /\ IF canvasCache.valid /\ GridHeight(canvasCache.canvas) > 0
       THEN /\ last' = "servedFromCache"
            /\ tasks' = tasks
       ELSE /\ last' = last
            /\ tasks' = [tasks EXCEPT ![t] = [pc |-> "readStore"]]
    /\ inflight' = None
    /\ UNCHANGED <<canvasDB, chatDB, blobDB, processedBatchIds, processedMessageIds, now,
                   usersDB, canvasCache, olderMessages>>

\* the getCanvas handler, lines 333-347: after RUnlock the canvas comes from
\* getCanvasFromDB, whatever the cache holds by then
ReadStore_p1(t, r) ==
    /\ tasks[t].pc = "readStore"
    /\ LET got == getCanvasFromDB_p1(blobDB, r)
       IN  /\ blobDB' = got.db
           /\ last' = IF got.err THEN "readFailed" ELSE "servedFromStore"
    /\ tasks' = [tasks EXCEPT ![t] = Idle]
    /\ UNCHANGED <<canvasDB, chatDB, processedBatchIds, processedMessageIds, now, inflight,
                   usersDB, canvasCache, olderMessages>>

\* //export initCanvas (part_001: initCanvasHandler, with func initCanvas)
initCanvasHandler_p1(putOk) ==
    /\ inflight.kind = "initCanvas"
    /\ blobDB' = IF putOk THEN DbPut(blobDB, CANVAS_KEY, EmptyGrid) ELSE blobDB
    /\ last' = IF putOk THEN "initialized" ELSE "initFailed"
    /\ inflight' = None
    /\ UNCHANGED <<canvasDB, chatDB, processedBatchIds, processedMessageIds, now, tasks,
                   usersDB, canvasCache, olderMessages>>

CanvasRequests == {[kind |-> "getCanvas"], [kind |-> "initCanvas"]}

\* the pixels the model still delivers: the placements counted and under way
\* stay within MaxPlaced
CanvasPixels_p1 ==
    IF \A n \in PlacedCounts : n + Cardinality(Busy) < MaxPlaced
    THEN {[kind |-> "pixel", pixel |-> MkPixel(c[1], c[2], RED)] : c \in {<<1, 2>>, <<3, 4>>}}
    ELSE {}

DeliverCanvas_p1 == Deliver(JoinUpdates \cup CanvasPixels_p1 \cup CanvasRequests)

\* a step of getCanvas, one invocation at a time (as task 2)
GetCanvas_p1 == BeginGetCanvas_p1(2) \/ \E r \in ReadOutcomes : ReadStore_p1(2, r)

InitCanvas_p1 == \E putOk \in BOOLEAN : initCanvasHandler_p1(putOk)

NextCanvas_p1 ==
    \/ DeliverCanvas_p1
    \/ OnUserUpdate_p1
    \/ OnPixelUpdate_p1
    \/ GetCanvas_p1
    \/ InitCanvas_p1

SpecCanvas_p1 == Init /\ [][NextCanvas_p1]_vars

\* C22: after the initCanvas handler replaced the stored canvas by a blank
\* one, the next getCanvas returns the blank canvas and never a grid that was
\* cached before the reset.  Stated for part_001 with a working store.
C22_ResetShowsBlank ==
    [][(inflight.kind = "initCanvas" /\ last' = "initialized")
          => \A r \in {o \in ReadOutcomes : o.get1} :
                SameGrid(getCanvas_p1(blobDB', canvasCache', r).canvas, EmptyGrid)]_vars

\* C23: when getCanvas finds no valid cached grid, it loads the canvas from
\* the store, installs it as the cached grid and marks the cache valid, so
\* that the following getCanvas is served from the cache.  Stated for
\* part_001.
C23_MissFillsCache ==
    [][(\E t \in DOMAIN tasks : tasks[t].pc = "readStore" /\ tasks'[t].pc = "idle"
                                    /\ last' = "servedFromStore")
          => /\ canvasCache'.valid
             /\ SameGrid(canvasCache'.canvas, StoredCanvas(blobDB'))]_vars

-----------------------------------------------------------------------------
(* Cached whole-canvas variant (part_002): onPixelUpdate and getCanvas as  *)
(* tasks, step by step, with cacheMutex.  A task's canvas is a Go slice:   *)
(* `shared` says that it is the very grid canvasCache refers to, so that a *)
(* cell set in it is set in the cached grid.  A task at "serialize" holds  *)
(* the read lock; the steps under the write lock wait for it.              *)

ReadLocked == \E t \in DOMAIN tasks : tasks[t].pc = "serialize"

\* the other tasks' canvases are no longer the cached grid once task t has
\* assigned canvasCache
Unshare(ts, t) ==
    [u \in DOMAIN ts |->
        IF u # t /\ ts[u].pc \in {"install", "setCell", "publish", "put"}
        THEN [ts[u] EXCEPT !.shared = FALSE] ELSE ts[u]]

\* onPixelUpdate (part_002), lines 597-626: the checks
BeginPixel_p2(t) ==
    /\ inflight.kind = "pixel"
    /\ tasks[t].pc = "idle"
    /\ IF ~isValidPixel(inflight.pixel.x, inflight.pixel.y) \/ ~isValidColor(inflight.pixel.color)
       THEN /\ last' = "rejected"
            /\ tasks' = tasks
       ELSE /\ last' = last
            /\ tasks' = [tasks EXCEPT ![t] = [pc |-> "load", kind |-> "write",
                                              pixel |-> inflight.pixel]]
    /\ inflight' = None
    /\ UNCHANGED <<canvasDB, chatDB, blobDB, processedBatchIds, processedMessageIds, now,
                   usersDB, canvasCache, olderMessages>>

\* getCanvas (part_002), lines 391-403: the cache under the read lock
BeginGetCanvas_p2(t) ==
    /\ inflight.kind = "getCanvas"
    /\ tasks[t].pc = "idle"
    /\ tasks' = [tasks EXCEPT ![t] =
                    IF canvasCache.valid /\ GridHeight(canvasCache.canvas) > 0
                    THEN [pc |-> "serialize"]
                    ELSE [pc |-> "load", kind |-> "read", pixel |-> inflight]]
    /\ inflight' = None
    /\ UNCHANGED <<canvasDB, chatDB, blobDB, processedBatchIds, processedMessageIds, now, last,
                   usersDB, canvasCache, olderMessages>>

\* getCanvas, lines 394-401: json.Marshal(canvasCache), then RUnlock
Serialize_p2(t) ==
    /\ tasks[t].pc = "serialize"
    /\ tasks' = [tasks EXCEPT ![t] = Idle]
    /\ last' = "servedFromCache"
    /\ UNCHANGED <<canvasDB, chatDB, blobDB, processedBatchIds, processedMessageIds, now,
                   inflight, usersDB, canvasCache, olderMessages>>

\* getCanvasFromDB, lines 145-172: the stored canvas is read, or created
LoadCanvas_p2(t, r) ==
    /\ tasks[t].pc = "load"
    /\ LET got == getCanvasFromDB(blobDB, r)
       IN  /\ blobDB' = got.db
           /\ IF got.err
              THEN /\ tasks' = [tasks EXCEPT ![t] = Idle]
                   /\ last' = IF tasks[t].kind = "write" THEN "saveFailed" ELSE "readFailed"
              ELSE /\ tasks' = [tasks EXCEPT ![t] =
                                   [pc |-> "install", kind |-> tasks[t].kind,
                                    pixel |-> tasks[t].pixel, canvas |-> got.canvas,
                                    shared |-> FALSE]]
                   /\ last' = last
    /\ UNCHANGED <<canvasDB, chatDB, processedBatchIds, processedMessageIds, now, inflight,
                   usersDB, canvasCache, olderMessages>>

\* getCanvasFromDB, lines 174-180: canvasCache = canvas under the write lock
InstallLoaded_p2(t) ==
    /\ tasks[t].pc = "install"
    /\ ~ReadLocked
    /\ canvasCache' = [valid |-> TRUE, canvas |-> tasks[t].canvas]
    /\ IF tasks[t].kind = "write"
       THEN /\ tasks' = Unshare([tasks EXCEPT ![t].pc = "setCell", ![t].shared = TRUE], t)
            /\ last' = last
       ELSE /\ tasks' = Unshare([tasks EXCEPT ![t] = Idle], t)
            /\ last' = "servedFromStore"
    /\ UNCHANGED <<canvasDB, chatDB, blobDB, processedBatchIds, processedMessageIds, now,
                   inflight, usersDB, olderMessages>>

\* savePixelToDB, lines 195-204: canvas[pixel.Y][pixel.X] = pixel if the
\* (checked) pixel is inside the grid that was read, with no lock held;
\* json.Marshal(canvas)
SetCell_p2(t) ==
    /\ tasks[t].pc = "setCell"
    /\ LET pixel == tasks[t].pixel
           canvas == IF \/ <<0 - 1, 0 - 1>> \notin DOMAIN tasks[t].canvas
                        \/ /\ pixel.y < GridHeight(tasks[t].canvas)
                           /\ pixel.x < GridWidth(tasks[t].canvas)
                     THEN SetCell(tasks[t].canvas, pixel.x, pixel.y, pixel.color)
                     ELSE tasks[t].canvas
       IN  /\ tasks' = [tasks EXCEPT ![t].pc = "publish", ![t].canvas = canvas]
           /\ canvasCache' = IF tasks[t].shared THEN [canvasCache EXCEPT !.canvas = canvas]
                             ELSE canvasCache
    /\ UNCHANGED <<canvasDB, chatDB, blobDB, processedBatchIds, processedMessageIds, now,
                   inflight, last, usersDB, olderMessages>>

\* savePixelToDB, lines 206-209: canvasCache = canvas under the write lock
InstallSaved_p2(t) ==
    /\ tasks[t].pc = "publish"
    /\ ~ReadLocked
    /\ canvasCache' = [canvasCache EXCEPT !.canvas = tasks[t].canvas]
    /\ tasks' = Unshare([tasks EXCEPT ![t].pc = "put", ![t].shared = TRUE], t)
    /\ UNCHANGED <<canvasDB, chatDB, blobDB, processedBatchIds, processedMessageIds, now,
                   inflight, last, usersDB, olderMessages>>

\* savePixelToDB, line 211: db.Put("canvas", canvasData)
PutCanvas_p2(t, putOk) ==
    /\ tasks[t].pc = "put"
    /\ blobDB' = IF putOk THEN DbPut(blobDB, CANVAS_KEY, tasks[t].canvas) ELSE blobDB
    /\ tasks' = [tasks EXCEPT ![t] = Idle]
    /\ last' = IF putOk THEN "stored" ELSE "saveFailed"
    /\ UNCHANGED <<canvasDB, chatDB, processedBatchIds, processedMessageIds, now, inflight,
                   usersDB, canvasCache, olderMessages>>

\* //export initCanvas (part_002), lines 531-552: createCanvas puts the blank
\* canvas; the cache is left as it is
initCanvas_p2(putOk) ==
    /\ inflight.kind = "initCanvas"
    /\ blobDB' = IF putOk THEN DbPut(blobDB, CANVAS_KEY, EmptyGrid) ELSE blobDB
    /\ last' = IF putOk THEN "initialized" ELSE "500"
    /\ inflight' = None
    /\ UNCHANGED <<canvasDB, chatDB, processedBatchIds, processedMessageIds, now, tasks,
                   usersDB, canvasCache, olderMessages>>

\* //export resetCanvas (part_002), lines 554-570: db.Delete("canvas"), whose
\* error is ignored
BeginReset_p2(t, deleteOk) ==
    /\ inflight.kind = "resetCanvas"
    /\ tasks[t].pc = "idle"
    /\ blobDB' = IF deleteOk THEN DbDelete(blobDB, CANVAS_KEY) ELSE blobDB
    /\ tasks' = [tasks EXCEPT ![t] = [pc |-> "clearCache"]]
    /\ inflight' = None
    /\ UNCHANGED <<canvasDB, chatDB, processedBatchIds, processedMessageIds, now, last,
                   usersDB, canvasCache, olderMessages>>

\* resetCanvas, lines 572-576: the cache is emptied under the write lock
ClearCache_p2(t) ==
    /\ tasks[t].pc = "clearCache"
    /\ ~ReadLocked
    /\ canvasCache' = NoCache
    /\ tasks' = Unshare([tasks EXCEPT ![t] = [pc |-> "recreate"]], t)
    /\ UNCHANGED <<canvasDB, chatDB, blobDB, processedBatchIds, processedMessageIds, now,
                   inflight, last, usersDB, olderMessages>>

\* resetCanvas, lines 578-592: createCanvas puts the blank canvas
CreateCanvas_p2(t, putOk) ==
    /\ tasks[t].pc = "recreate"
    /\ blobDB' = IF putOk THEN DbPut(blobDB, CANVAS_KEY, EmptyGrid) ELSE blobDB
    /\ tasks' = [tasks EXCEPT ![t] = Idle]
    /\ last' = IF putOk THEN "reset" ELSE "500"
    /\ UNCHANGED <<canvasDB, chatDB, processedBatchIds, processedMessageIds, now, inflight,
                   usersDB, canvasCache, olderMessages>>

ConcRequests_p2 ==
    {[kind |-> "pixel", pixel |-> MkPixel(c[1], c[2], RED)] :
        c \in {<<1, 2>>, <<3, 4>>, <<100, 4>>}}
        \cup {[kind |-> "getCanvas"], [kind |-> "initCanvas"], [kind |-> "resetCanvas"]}

DeliverConc_p2 == Deliver(ConcRequests_p2)

BeginPixelStep_p2 == \E t \in DOMAIN tasks : BeginPixel_p2(t)

BeginGetStep_p2 == \E t \in DOMAIN tasks : BeginGetCanvas_p2(t)

SerializeStep_p2 == \E t \in DOMAIN tasks : Serialize_p2(t)

LoadStep_p2 == \E t \in DOMAIN tasks, r \in ReadOutcomes : LoadCanvas_p2(t, r)

InstallLoadedStep_p2 == \E t \in DOMAIN tasks : InstallLoaded_p2(t)

SetCellStep_p2 == \E t \in DOMAIN tasks : SetCell_p2(t)

InstallSavedStep_p2 == \E t \in DOMAIN tasks : InstallSaved_p2(t)

PutStep_p2 == \E t \in DOMAIN tasks, putOk \in BOOLEAN : PutCanvas_p2(t, putOk)

InitCanvasStep_p2 == \E putOk \in BOOLEAN : initCanvas_p2(putOk)

BeginResetStep_p2 == \E t \in DOMAIN tasks, deleteOk \in BOOLEAN : BeginReset_p2(t, deleteOk)

ClearCacheStep_p2 == \E t \in DOMAIN tasks : ClearCache_p2(t)

CreateStep_p2 == \E t \in DOMAIN tasks, putOk \in BOOLEAN : CreateCanvas_p2(t, putOk)

NextConc_p2 ==
    \/ DeliverConc_p2
    \/ BeginPixelStep_p2
    \/ BeginGetStep_p2
    \/ SerializeStep_p2
    \/ LoadStep_p2
    \/ InstallLoadedStep_p2
    \/ SetCellStep_p2
    \/ InstallSavedStep_p2
    \/ PutStep_p2
    \/ InitCanvasStep_p2
    \/ BeginResetStep_p2
    \/ ClearCacheStep_p2
    \/ CreateStep_p2

SpecConc_p2 == Init /\ [][NextConc_p2]_vars

\* The requests handled one after the other by one task, from the empty
\* store
InitCached ==
    /\ Init!1 /\ Init!2
    /\ blobDB = <<>>
    /\ Init!4 /\ Init!5 /\ Init!6 /\ Init!7 /\ Init!8 /\ Init!9 /\ Init!10 /\ Init!11
    /\ Init!12

DeliverPixel ==
    Deliver(SinglePixels \cup {[kind |-> "getCanvas"], [kind |-> "initCanvas"],
                               [kind |-> "resetCanvas"]})

NextCached ==
    \/ DeliverPixel
    \/ BeginPixel_p2(1)
    \/ BeginGetCanvas_p2(1)
    \/ Serialize_p2(1)
    \/ \E r \in ReadOutcomes : LoadCanvas_p2(1, r)
    \/ InstallLoaded_p2(1)
    \/ SetCell_p2(1)
    \/ InstallSaved_p2(1)
    \/ \E putOk \in BOOLEAN : PutCanvas_p2(1, putOk)
    \/ InitCanvasStep_p2
    \/ \E deleteOk \in BOOLEAN : BeginReset_p2(1, deleteOk)
    \/ ClearCache_p2(1)
    \/ \E putOk \in BOOLEAN : CreateCanvas_p2(1, putOk)

SpecCached == InitCached /\ [][NextCached]_vars

\* C11: a pixel write whose colour is not '#' followed by exactly six
\* hexadecimal digits is rejected: the handler persists nothing and caches
\* nothing, so no cell of the stored canvas and no cell of the cached canvas
\* ever holds such a colour.
C11_BadColorRejected ==
    /\ (CANVAS_KEY \in DOMAIN blobDB /\ Parses(blobDB[CANVAS_KEY]))
          => \A c \in DOMAIN blobDB[CANVAS_KEY] : isValidColorV3(blobDB[CANVAS_KEY][c])
    /\ \A c \in DOMAIN canvasCache.canvas : isValidColorV3(canvasCache.canvas[c])

\* C25: if the store Put fails during a pixel write, the handler reports
\* failure and the state is as before the request: no pixel is stored and the
\* cached grid is unchanged, so the grid served from the cache shows the
\* pixel's colour at its cell only if the stored canvas shows it.  Stated for
\* part_002.
C25_FailedPutChangesNothing ==
    [][\A t \in DOMAIN tasks :
          (tasks[t].pc = "put" /\ tasks'[t].pc = "idle" /\ last' = "saveFailed")
              => LET pixel == tasks[t].pixel
                 IN  (/\ canvasCache'.valid
                      /\ At(canvasCache'.canvas, pixel.x, pixel.y) = pixel.color)
                         => /\ CANVAS_KEY \in DOMAIN blobDB'
                            /\ At(blobDB'[CANVAS_KEY], pixel.x, pixel.y) = pixel.color]_vars

\* C24: every modification of the shared cached grid is made while cacheMutex
\* is write-locked: no task sets a cell of the grid canvasCache refers to in a
\* step that holds no write lock, or while another task holds the read lock
\* and is serializing that grid.
C24_CacheWritesLocked ==
    [][\A t \in DOMAIN tasks :
          (tasks[t].pc = "setCell" /\ tasks'[t].pc = "publish") => ~tasks[t].shared]_vars

-----------------------------------------------------------------------------
(* What the handlers store under "room:<room>" (part_004)                  *)

\* every stored canvas parses and is a full CanvasHeight x CanvasWidth grid:
\* the writers (part_004 480-488 and 530) Put nothing else, so the branches
\* of onPixelUpdate for a stored value that does not parse (494-500) or that
\* is smaller than the canvas (500-519) are taken from no state the handlers
\* produce
StoredCanvasesFull ==
    \A k \in DOMAIN blobDB :
        /\ Parses(blobDB[k])
        /\ GridHeight(blobDB[k]) = CanvasHeight
        /\ GridWidth(blobDB[k]) = CanvasWidth

-----------------------------------------------------------------------------
(* backend.go, second variant (lines 393-779): one canvas under key "data" *)

DATA_KEY == <<"d", "a", "t", "a">>

\* //export getCanvas (445-483): the stored bytes, or an empty canvas when
\* db.Get returns an error
getCanvas_v2(db, getOk) ==
    IF getOk /\ DATA_KEY \in DOMAIN db THEN db[DATA_KEY] ELSE EmptyGrid

\* //export initCanvas (566-604)
initCanvas_v2(putOk) ==
    /\ inflight.kind = "initCanvas"
    /\ blobDB' = IF putOk THEN DbPut(blobDB, DATA_KEY, EmptyGrid) ELSE blobDB
    /\ last' = IF putOk THEN "initialized" ELSE "initFailed"
    /\ inflight' = None
    /\ UNCHANGED <<canvasDB, chatDB, processedBatchIds, processedMessageIds, now, tasks,
                   usersDB, canvasCache, olderMessages>>

\* line 643: canvas[pixel.Y][pixel.X] of a pixel within the constants is
\* outside the parsed grid (index out of range: the handler stops with a
\* runtime fault).  A grid without the marker cell is the full grid.
IndexFault_v2(canvas, pixel) ==
    /\ <<0 - 1, 0 - 1>> \in DOMAIN canvas
    /\ (pixel.y >= GridHeight(canvas) \/ pixel.x >= GridWidth(canvas))

\* //export onPixelUpdate (606-657) up to the db.Put: the canvas is read with
\* db.Get("data") (630) and the pixel is set in the parsed copy (642-643).
\* The handler ends here on an error, a fault or a pixel out of range.
onPixelUpdate_v2(t, getOk) ==
    /\ inflight.kind = "pixel"
    /\ tasks[t].pc = "idle"
    /\ LET pixel == inflight.pixel
           result == IF ~(getOk /\ DATA_KEY \in DOMAIN blobDB) THEN "readFailed"
                     ELSE IF ~Parses(blobDB[DATA_KEY]) THEN "parseFailed"
                     ELSE IF ~isValidPixel(pixel.x, pixel.y) THEN "skipped"
                     ELSE IF IndexFault_v2(blobDB[DATA_KEY], pixel) THEN "fault"
                     ELSE "put"
       IN  IF result = "put"
           THEN /\ tasks' = [tasks EXCEPT ![t] =
                                [pc |-> "putData", pixel |-> pixel,
                                 canvas |-> SetCell(blobDB[DATA_KEY], pixel.x, pixel.y,
                                                    pixel.color)]]
                /\ last' = last
           ELSE /\ tasks' = tasks
                /\ last' = result
    /\ inflight' = None
    /\ UNCHANGED <<canvasDB, chatDB, blobDB, processedBatchIds, processedMessageIds, now,
                   usersDB, canvasCache, olderMessages>>

\* onPixelUpdate, line 650: db.Put("data", updatedData) of the copy
PutData_v2(t, putOk) ==
    /\ tasks[t].pc = "putData"
    /\ blobDB' = IF putOk THEN DbPut(blobDB, DATA_KEY, tasks[t].canvas) ELSE blobDB
    /\ last' = IF putOk THEN "stored" ELSE "putFailed"
    /\ tasks' = [tasks EXCEPT ![t] = Idle]
    /\ UNCHANGED <<canvasDB, chatDB, processedBatchIds, processedMessageIds, now, inflight,
                   usersDB, canvasCache, olderMessages>>

\* type User struct (backend.go 415-420)
MkUser_v2(id, username, color, online) ==
    [id |-> id, username |-> username, color |-> color, online |-> online]

\* //export onUserUpdate (659-719) up to the db.Put: the list under "data" of
\* /users is read (683; empty on an error) and the user is replaced in it or
\* appended.  usersDB holds the list, each user under its id.
onUserUpdate_v2(t, getOk) ==
    /\ inflight.kind = "userUpdate"
    /\ tasks[t].pc = "idle"
    /\ LET user == inflight.user
           users == IF getOk THEN usersDB ELSE <<>>
       IN  tasks' = [tasks EXCEPT ![t] =
                        [pc |-> "putUsers", user |-> user,
                         users |-> [id \in (DOMAIN users) \cup {user.id} |->
                                       IF id = user.id THEN user ELSE users[id]]]]
    /\ inflight' = None
    /\ UNCHANGED <<canvasDB, chatDB, blobDB, processedBatchIds, processedMessageIds, now,
                   last, usersDB, canvasCache, olderMessages>>

\* onUserUpdate, line 713: db.Put("data", updatedData)
PutUsers_v2(t, putOk) ==
    /\ tasks[t].pc = "putUsers"
    /\ usersDB' = IF putOk THEN tasks[t].users ELSE usersDB
    /\ last' = IF putOk THEN "stored" ELSE "putFailed"
    /\ tasks' = [tasks EXCEPT ![t] = Idle]
    /\ UNCHANGED <<canvasDB, chatDB, blobDB, processedBatchIds, processedMessageIds, now,
                   inflight, canvasCache, olderMessages>>

\* the pixels and requests of the canvas
DataRequests == SinglePixels \cup {[kind |-> "initCanvas"]}

UserUpdates_v2 ==
    {[kind |-> "userUpdate", user |-> MkUser_v2(id, ANN, color, online)] :
        id \in {U1, U2}, color \in {RED, BLUE}, online \in BOOLEAN}

DeliverData_v2 == Deliver(DataRequests)
DeliverUser_v2 == Deliver(UserUpdates_v2)
InitCanvas_v2 == \E putOk \in BOOLEAN : initCanvas_v2(putOk)
OnPixelUpdate_v2 == \E t \in DOMAIN tasks, getOk \in BOOLEAN : onPixelUpdate_v2(t, getOk)
PutDataStep_v2 == \E t \in DOMAIN tasks, putOk \in BOOLEAN : PutData_v2(t, putOk)
OnUserUpdate_v2 == \E t \in DOMAIN tasks, getOk \in BOOLEAN : onUserUpdate_v2(t, getOk)
PutUsersStep_v2 == \E t \in DOMAIN tasks, putOk \in BOOLEAN : PutUsers_v2(t, putOk)

\* the deliveries handled one after the other
OnPixelUpdateAlone_v2 == \E getOk \in BOOLEAN : onPixelUpdate_v2(1, getOk)

NextData_v2 == DeliverData_v2 \/ InitCanvas_v2 \/ OnPixelUpdateAlone_v2 \/ PutDataStep_v2

SpecData_v2 == Init /\ [][NextData_v2]_vars

\* two handlers can be between their Get and their Put
ConcRequests_v2 ==
    {[kind |-> "pixel", pixel |-> pixel] :
        pixel \in {MkPixel(1, 2, RED), MkPixel(3, 4, BLUE), MkPixel(100, 4, RED)}}
        \cup {[kind |-> "initCanvas"]}

DeliverDataConc_v2 == Deliver(ConcRequests_v2)

NextDataConc_v2 ==
    DeliverDataConc_v2 \/ InitCanvas_v2 \/ OnPixelUpdate_v2 \/ PutDataStep_v2

SpecDataConc_v2 == Init /\ [][NextDataConc_v2]_vars

\* the user list, likewise
NextUsers_v2 == DeliverUser_v2 \/ OnUserUpdate_v2 \/ PutUsersStep_v2

SpecUsers_v2 == Init /\ [][NextUsers_v2]_vars

\* C28: a pixel write to a canvas for which nothing has been stored yet
\* succeeds and creates the canvas implicitly: when the handler of a pixel
\* within the canvas has ended, the next read shows that pixel on an
\* otherwise blank grid, with no initCanvas before it.
C28_FirstWriteCreatesCanvas ==
    [][(/\ inflight.kind = "pixel"
        /\ isValidPixel(inflight.pixel.x, inflight.pixel.y)
        /\ DATA_KEY \notin DOMAIN blobDB
        /\ inflight' = None
        /\ tasks' = tasks)
          => SameGrid(getCanvas_v2(blobDB', TRUE),
                      SetCell(EmptyGrid, inflight.pixel.x, inflight.pixel.y,
                              inflight.pixel.color))]_vars

-----------------------------------------------------------------------------
(* backend.go, second variant: the chat is one list under key "data" of    *)
(* /chat; onChatMessage (721-778) stamps each message itself.  `now` is    *)
(* the clock in seconds here.                                              *)

\* the nanoseconds within the second at which the handler reads the clock
NanoParts == {<<"0", "0", "0", "0", "0", "0", "0", "0", "0">>,
              <<"0", "0", "0", "0", "0", "0", "0", "0", "1">>}

\* fmt.Sprintf("%d", time.Now().UnixNano())
UnixNanoText(seconds, nanos) == Itoa(seconds) \o nanos

\* messagesData of onChatMessage: "[]" when db.Get returns an error
StoredMessages_v2(db, getOk) ==
    IF getOk /\ DATA_KEY \in DOMAIN db THEN db[DATA_KEY] ELSE <<>>

\* messages[len(messages)-100:]
LastHundred(messages) ==
    IF Len(messages) > 100 THEN SubSeq(messages, Len(messages) - 99, Len(messages))
    ELSE messages

\* //export onChatMessage (backend.go 721-778) up to the db.Put: the list is
\* read with db.Get("data") (745; empty on an error), the message is stamped
\* with the clock (757-758) and appended (759-764)
onChatMessage_v2(t, getOk, nanos) ==
    /\ inflight.kind = "chat"
    /\ tasks[t].pc = "idle"
    /\ LET message == [inflight.message EXCEPT !.id = UnixNanoText(now, nanos),
                                               !.timestamp = now]
       IN  tasks' = [tasks EXCEPT ![t] =
                        [pc |-> "putChat", request |-> inflight.message,
                         messages |-> LastHundred(Append(StoredMessages_v2(chatDB, getOk),
                                                         message))]]
    /\ inflight' = None
    /\ UNCHANGED <<canvasDB, chatDB, blobDB, processedBatchIds, processedMessageIds, now,
                   last, usersDB, canvasCache, olderMessages>>

\* onChatMessage, line 772: db.Put("data", updatedData)
PutChat_v2(t, putOk) ==
    /\ tasks[t].pc = "putChat"
    /\ chatDB' = IF putOk THEN DbPut(chatDB, DATA_KEY, tasks[t].messages) ELSE chatDB
    /\ last' = IF putOk THEN "stored" ELSE "saveFailed"
    /\ tasks' = [tasks EXCEPT ![t] = Idle]
    /\ UNCHANGED <<canvasDB, blobDB, processedBatchIds, processedMessageIds, now, inflight,
                   usersDB, canvasCache, olderMessages>>

\* messages as a publisher can send them, with and without id and timestamp,
\* while the list and the handlers under way hold fewer than MaxChat
ChatPosts_v2 ==
    IF Len(StoredMessages_v2(chatDB, TRUE))
          + Cardinality({t \in DOMAIN tasks : tasks[t].pc # "idle"}) >= MaxChat
    THEN {}
    ELSE {[kind |-> "chat", message |-> MkMessage(id, U1, ANN, text, t)] :
             id \in {<<>>, M1}, text \in {ChatText, <<"y", "o">>}, t \in {0, 100}}

DeliverChat_v2 == Deliver(ChatPosts_v2)
OnChatMessage_v2 ==
    \E t \in DOMAIN tasks, getOk \in BOOLEAN, nanos \in NanoParts :
        onChatMessage_v2(t, getOk, nanos)
PutChatStep_v2 == \E t \in DOMAIN tasks, putOk \in BOOLEAN : PutChat_v2(t, putOk)

NextChat_v2 == DeliverChat_v2 \/ OnChatMessage_v2 \/ PutChatStep_v2 \/ Tick

SpecChat_v2 == Init /\ [][NextChat_v2]_vars

\* C29: when a chat message arrives with a non-empty id and a non-zero
\* timestamp, the stored message keeps exactly those values.
C29_CallerIdKept ==
    [][\A t \in DOMAIN tasks :
          (/\ tasks[t].pc = "putChat"
           /\ tasks[t].request.id # <<>>
           /\ tasks[t].request.timestamp # 0
           /\ tasks'[t].pc = "idle"
           /\ last' = "stored")
             => LET stored == chatDB'[DATA_KEY][Len(chatDB'[DATA_KEY])]
                IN  /\ stored.id = tasks[t].request.id
                    /\ stored.timestamp = tasks[t].request.timestamp]_vars

-----------------------------------------------------------------------------
(* sanitizeMessage as a function of its input (backend.go 900-911 and      *)
(* part_002 81-96)                                                         *)

\* strings.Contains(s, sub)
ContainsText(s, sub) == Occurrences(s, sub) # {}

\* the input texts are made of up to MaxPieces of these pieces
Pieces ==
    {<<"<", "s", "c", "r">>, <<"i", "p", "t">>, SCRIPT_OPEN, SCRIPT_CLOSE, JAVASCRIPT,
     <<"o", "n", "l", "o", "a", "d", "=">>, <<" ">>, <<"\f">>, ChatText}

RECURSIVE Flatten(_)
Flatten(ss) == IF ss = <<>> THEN <<>> ELSE Head(ss) \o Flatten(Tail(ss))

\* a text of n characters
Filler(n) == [i \in 1..n |-> "x"]

\* short texts, and texts around the length limit of 500
SanitizeInputs ==
    {Flatten(ss) : ss \in SeqsUpTo(Pieces, MaxPieces)}
        \cup {Filler(500), Filler(501), Filler(499) \o <<"U+00A0">>,
              Filler(498) \o <<"U+3000">>,
              [i \in 1..249 |-> "U+3000"] \o <<"a", "b", "c", "d">>,
              Filler(497) \o SCRIPT_OPEN,
              Filler(500) \o SCRIPT_OPEN, Filler(496) \o <<"<", "s", "c", "r">> \o SCRIPT_CLOSE
                                           \o <<"i", "p", "t">>}

InitSanitize ==
    /\ Init!1 /\ Init!2 /\ Init!3 /\ Init!4 /\ Init!5 /\ Init!6
    /\ inflight \in {[kind |-> "text", message |-> m] : m \in SanitizeInputs}
    /\ Init!8 /\ Init!9 /\ Init!10 /\ Init!11 /\ Init!12

\* the text goes through sanitizeMessage of each variant
Sanitize ==
    /\ inflight.kind = "text"
    /\ inflight' = [kind |-> "sanitized", message |-> inflight.message,
                    v3 |-> sanitizeMessage(inflight.message),
                    p2 |-> sanitizeMessage_p2(inflight.message)]
    /\ UNCHANGED <<canvasDB, chatDB, blobDB, processedBatchIds, processedMessageIds, now, tasks,
                   last, usersDB, canvasCache, olderMessages>>

SpecSanitize == InitSanitize /\ [][Sanitize]_vars

\* C30: for every input, sanitizeMessage returns at most 500 characters with
\* no occurrence of "<script", "</script>" or "javascript:" (backend.go).
C30_NoDenylistedSubstring ==
    inflight.kind = "sanitized"
        => /\ Len(inflight.v3) <= 500
           /\ ~ContainsText(inflight.v3, SCRIPT_OPEN)
           /\ ~ContainsText(inflight.v3, SCRIPT_CLOSE)
           /\ ~ContainsText(inflight.v3, JAVASCRIPT)

-----------------------------------------------------------------------------
(* part_003 placePixel, step by step: requests of one user can be in the   *)
(* handler at the same time.  Pixels are stored one key per cell in        *)
(* /canvas, users one key per id in /users.                                *)

Cooldown == 1000

\* key := fmt.Sprintf("pixels/%d_%d", pixel.X, pixel.Y)
PixelKey_p3(x, y) == <<"p", "i", "x", "e", "l", "s", "/">> \o Itoa(x) \o <<"_">> \o Itoa(y)

\* type Pixel struct (part_003)
MkPixel_p3(x, y, color, userId, timestamp) ==
    [x |-> x, y |-> y, color |-> color, userId |-> userId, timestamp |-> timestamp]

\* func isValidPixel (part_003)
isValidPixel_p3(x, y, width, height) == x >= 0 /\ x < width /\ y >= 0 /\ y < height

\* func isUserInCooldown (part_003)
isUserInCooldown(user, clock) == clock < user.cooldownEnds

\* placePixel, lines 357-396: the header, the body, the user's record, the
\* cooldown and the coordinates are checked
BeginPlace_p3(t, getOk) ==
    /\ inflight.kind = "placePixel"
    /\ tasks[t].pc = "idle"
    /\ LET status ==
               IF inflight.userId = <<>> THEN "401"
               ELSE IF ~inflight.decodable THEN "400"
               ELSE IF ~(getOk /\ inflight.userId \in DOMAIN usersDB) THEN "404"
               ELSE IF isUserInCooldown(usersDB[inflight.userId], now) THEN "429"
               ELSE IF ~isValidPixel_p3(inflight.x, inflight.y, 100, 100) THEN "400"
               ELSE "accepted"
       IN  IF status = "accepted"
           THEN /\ tasks' = [tasks EXCEPT ![t] =
                               [pc |-> "savePixel", user |-> usersDB[inflight.userId],
                                pixel |-> MkPixel_p3(inflight.x, inflight.y, inflight.color,
                                                     inflight.userId, now)]]
                /\ last' = last
           ELSE /\ tasks' = tasks
                /\ last' = status
    /\ inflight' = None
    /\ UNCHANGED <<canvasDB, chatDB, blobDB, processedBatchIds, processedMessageIds, now,
                   usersDB, canvasCache, olderMessages>>

\* lines 398-409: savePixelToDB(pixel)
SavePixel_p3(t, putOk) ==
    /\ tasks[t].pc = "savePixel"
    /\ IF putOk
       THEN /\ canvasDB' = DbPut(canvasDB, PixelKey_p3(tasks[t].pixel.x, tasks[t].pixel.y),
                                 tasks[t].pixel)
            /\ tasks' = [tasks EXCEPT ![t].pc = "saveUser"]
            /\ last' = last
       ELSE /\ canvasDB' = canvasDB
            /\ tasks' = [tasks EXCEPT ![t] = Idle]
            /\ last' = "500"
    /\ UNCHANGED <<chatDB, blobDB, processedBatchIds, processedMessageIds, now, inflight,
                   usersDB, canvasCache, olderMessages>>

\* lines 411-418: the counter, the cooldown and lastSeen are set on the copy of
\* the record read at the start, and the copy is saved
SaveUser_p3(t, putOk) ==
    /\ tasks[t].pc = "saveUser"
    /\ LET user == [tasks[t].user EXCEPT !.pixelsPlaced = @ + 1,
                                         !.cooldownEnds = now + Cooldown,
                                         !.lastSeen = now]
       IN  /\ usersDB' = IF putOk THEN DbPut(usersDB, user.id, user) ELSE usersDB
           /\ last' = IF putOk THEN "200" ELSE "500"
    /\ tasks' = [tasks EXCEPT ![t] = Idle]
    /\ UNCHANGED <<canvasDB, chatDB, blobDB, processedBatchIds, processedMessageIds, now,
                   inflight, canvasCache, olderMessages>>

\* the counters of placed pixels, stored and in the running requests' copies
PlacedCounts_p3 ==
    {usersDB[id].pixelsPlaced : id \in DOMAIN usersDB}
        \cup {tasks[t].user.pixelsPlaced : t \in Busy}

PlaceRequests ==
    {[kind |-> "placePixel", userId |-> <<>>, decodable |-> TRUE, x |-> 1, y |-> 2,
      color |-> RED],
     [kind |-> "placePixel", userId |-> U1, decodable |-> FALSE, x |-> 1, y |-> 2,
      color |-> RED],
     [kind |-> "placePixel", userId |-> U2, decodable |-> TRUE, x |-> 1, y |-> 2,
      color |-> RED]}
        \cup (IF \A n \in PlacedCounts_p3 : n + Cardinality(Busy) < MaxPlaced
              THEN {[kind |-> "placePixel", userId |-> U1, decodable |-> TRUE, x |-> c[1],
                     y |-> c[2], color |-> RED] : c \in {<<1, 2>>, <<100, 4>>}}
              ELSE {})

JoinRequests_p3 == {[kind |-> "joinGame", username |-> ANN, userId |-> U1]}

LeaveRequests_p3 == {[kind |-> "leaveGame", userId |-> U1]}

\* the clock moves on: to just before the end of a cooldown started at the
\* start, and to its end
Elapse_p3 ==
    /\ now' \in {t \in {StartTime + Cooldown - 1, StartTime + Cooldown} : t > now}
    /\ UNCHANGED <<canvasDB, chatDB, blobDB, processedBatchIds, processedMessageIds, inflight,
                   tasks, last, usersDB, canvasCache, olderMessages>>

DeliverPlace_p3 == Deliver(JoinRequests_p3 \cup LeaveRequests_p3 \cup PlaceRequests)
BeginPlaceStep == \E t \in DOMAIN tasks, getOk \in BOOLEAN : BeginPlace_p3(t, getOk)
SavePixelStep == \E t \in DOMAIN tasks, putOk \in BOOLEAN : SavePixel_p3(t, putOk)
SaveUserStep == \E t \in DOMAIN tasks, putOk \in BOOLEAN : SaveUser_p3(t, putOk)

JoinGameStep_p3 == \E putOk \in BOOLEAN : joinGame(RED, putOk)

NextPlace_p3 ==
    DeliverPlace_p3 \/ JoinGameStep_p3 \/ LeaveGame \/ SaveLeftStep \/ BeginPlaceStep
        \/ SavePixelStep \/ SaveUserStep \/ Elapse_p3

SpecPlace_p3 == Init /\ [][NextPlace_p3]_vars

\* C31: a user's stored pixelsPlaced never decreases across join and place
\* operations: a second join with the same userId keeps the count.
C31_PlacedNeverDecreases ==
    [][\A id \in DOMAIN usersDB :
          id \in DOMAIN usersDB' => usersDB'[id].pixelsPlaced >= usersDB[id].pixelsPlaced]_vars

-----------------------------------------------------------------------------
(* part_003: the canvas dimensions, the canvas answer and the chat.  The   *)
(* dimensions are the keys "width" and "height" of /canvas, written by     *)
(* getCanvas when missing and by initCanvas; each chat message is one key  *)
(* of /chat, its id.                                                       *)

WIDTH_KEY == <<"w", "i", "d", "t", "h">>
HEIGHT_KEY == <<"h", "e", "i", "g", "h", "t">>

\* []byte("100")
HUNDRED == <<"1", "0", "0">>

PIXELS_PREFIX == <<"p", "i", "x", "e", "l", "s", "/">>

\* getCanvasFromDB (part_003), line 125: db.Get("width")
GetWidth_p3(t, getOk) ==
    /\ inflight.kind = "getCanvas"
    /\ tasks[t].pc = "idle"
    /\ tasks' = [tasks EXCEPT ![t] =
                    IF getOk /\ WIDTH_KEY \in DOMAIN canvasDB
                    THEN [pc |-> "getHeight", width |-> canvasDB[WIDTH_KEY]]
                    ELSE [pc |-> "putWidth", width |-> HUNDRED]]
    /\ inflight' = None
    /\ UNCHANGED <<canvasDB, chatDB, blobDB, processedBatchIds, processedMessageIds, now,
                   last, usersDB, canvasCache, olderMessages>>

\* line 129: db.Put("width", "100") when the width was not read
PutWidth_p3(t, putOk) ==
    /\ tasks[t].pc = "putWidth"
    /\ IF putOk
       THEN /\ canvasDB' = DbPut(canvasDB, WIDTH_KEY, HUNDRED)
            /\ tasks' = [tasks EXCEPT ![t] = [pc |-> "putHeight", width |-> HUNDRED]]
            /\ last' = last
       ELSE /\ canvasDB' = canvasDB
            /\ tasks' = [tasks EXCEPT ![t] = Idle]
            /\ last' = "500"
    /\ UNCHANGED <<chatDB, blobDB, processedBatchIds, processedMessageIds, now, inflight,
                   usersDB, canvasCache, olderMessages>>

\* line 138: db.Get("height") when the width was read
GetHeight_p3(t, getOk) ==
    /\ tasks[t].pc = "getHeight"
    /\ tasks' = [tasks EXCEPT ![t] =
                    IF getOk /\ HEIGHT_KEY \in DOMAIN canvasDB
                    THEN [pc |-> "listPixels", width |-> tasks[t].width,
                          height |-> canvasDB[HEIGHT_KEY]]
                    ELSE [pc |-> "putHeight", width |-> tasks[t].width]]
    /\ UNCHANGED <<canvasDB, chatDB, blobDB, processedBatchIds, processedMessageIds, now,
                   inflight, last, usersDB, canvasCache, olderMessages>>

\* lines 132 and 141: db.Put("height", "100")
PutHeight_p3(t, putOk) ==
    /\ tasks[t].pc = "putHeight"
    /\ IF putOk
       THEN /\ canvasDB' = DbPut(canvasDB, HEIGHT_KEY, HUNDRED)
            /\ tasks' = [tasks EXCEPT ![t] = [pc |-> "listPixels", width |-> tasks[t].width,
                                              height |-> HUNDRED]]
            /\ last' = last
       ELSE /\ canvasDB' = canvasDB
            /\ tasks' = [tasks EXCEPT ![t] = Idle]
            /\ last' = "500"
    /\ UNCHANGED <<chatDB, blobDB, processedBatchIds, processedMessageIds, now, inflight,
                   usersDB, canvasCache, olderMessages>>

\* lines 149-180: the cells of the answer that are not blank: the stored
\* pixels within width x height, of the keys under "pixels/" that were read
CanvasAnswer_p3(db, width, height, listOk, unread) ==
    IF listOk
    THEN {db[k] : k \in {key \in (DOMAIN db) \ unread :
                            /\ HasPrefix(key, PIXELS_PREFIX)
                            /\ isValidPixel_p3(db[key].x, db[key].y, width, height)}}
    ELSE {}

\* lines 163-180 and getCanvas 559-574: db.List("pixels/"), one db.Get per
\* key, and the answer
ListPixels_p3(t) ==
    /\ tasks[t].pc = "listPixels"
    /\ tasks' = [tasks EXCEPT ![t] = Idle]
    /\ last' = "200"
    /\ UNCHANGED <<canvasDB, chatDB, blobDB, processedBatchIds, processedMessageIds, now,
                   inflight, usersDB, canvasCache, olderMessages>>

\* //export initCanvas (part_003), lines 846-861: db.Put("width", "100")
initCanvas_p3(t, putOk) ==
    /\ inflight.kind = "initCanvas"
    /\ tasks[t].pc = "idle"
    /\ IF putOk
       THEN /\ canvasDB' = DbPut(canvasDB, WIDTH_KEY, HUNDRED)
            /\ tasks' = [tasks EXCEPT ![t] = [pc |-> "initHeight"]]
            /\ last' = last
       ELSE /\ canvasDB' = canvasDB
            /\ tasks' = tasks
            /\ last' = "500"
    /\ inflight' = None
    /\ UNCHANGED <<chatDB, blobDB, processedBatchIds, processedMessageIds, now, usersDB,
                   canvasCache, olderMessages>>

\* initCanvas, lines 862-880: db.Put("height", "100") and the answer
InitHeight_p3(t, putOk) ==
    /\ tasks[t].pc = "initHeight"
    /\ canvasDB' = IF putOk THEN DbPut(canvasDB, HEIGHT_KEY, HUNDRED) ELSE canvasDB
    /\ last' = IF putOk THEN "200" ELSE "500"
    /\ tasks' = [tasks EXCEPT ![t] = Idle]
    /\ UNCHANGED <<chatDB, blobDB, processedBatchIds, processedMessageIds, now, inflight,
                   usersDB, canvasCache, olderMessages>>

\* type ChatMessage struct (part_003)
MkMessage_p3(id, userId, username, message, timestamp, type) ==
    [id |-> id, userId |-> userId, username |-> username, message |-> message,
     timestamp |-> timestamp, type |-> type]

\* the nanoseconds within the millisecond at which the clock is read
MilliNanoParts == {<<"0", "0", "0", "0", "0", "0">>, <<"0", "0", "0", "0", "0", "1">>}

\* func generateMessageID (part_003): fmt.Sprintf("msg_%d", time.Now().UnixNano())
generateMessageID(millis, nanos) == <<"m", "s", "g", "_">> \o Itoa(millis) \o nanos

\* //export sendMessage (part_003), lines 612-657: the header, the body and the
\* user's record (db.Get(userID), 638) are checked and the message is built
sendMessage_p3(t, getOk, nanos) ==
    /\ inflight.kind = "sendMessage"
    /\ tasks[t].pc = "idle"
    /\ LET status == IF inflight.userId = <<>> THEN "401"
                     ELSE IF ~inflight.decodable THEN "400"
                     ELSE IF ~(getOk /\ inflight.userId \in DOMAIN usersDB) THEN "404"
                     ELSE "found"
       IN  IF status = "found"
           THEN /\ tasks' = [tasks EXCEPT ![t] =
                                [pc |-> "saveMessage",
                                 message |-> MkMessage_p3(generateMessageID(now, nanos),
                                                          inflight.userId,
                                                          usersDB[inflight.userId].username,
                                                          inflight.message, now,
                                                          <<"u", "s", "e", "r">>)]]
                /\ last' = last
           ELSE /\ tasks' = tasks
                /\ last' = status
    /\ inflight' = None
    /\ UNCHANGED <<canvasDB, chatDB, blobDB, processedBatchIds, processedMessageIds, now,
                   usersDB, canvasCache, olderMessages>>

\* sendMessage, line 659: saveChatMessageToDB(message), the db.Put(message.ID)
\* of line 295
SaveMessage_p3(t, putOk) ==
    /\ tasks[t].pc = "saveMessage"
    /\ chatDB' = IF putOk THEN DbPut(chatDB, tasks[t].message.id, tasks[t].message) ELSE chatDB
    /\ last' = IF putOk THEN "200" ELSE "500"
    /\ tasks' = [tasks EXCEPT ![t] = Idle]
    /\ UNCHANGED <<canvasDB, blobDB, processedBatchIds, processedMessageIds, now, inflight,
                   usersDB, canvasCache, olderMessages>>

CanvasRequests_p3 ==
    {[kind |-> "getCanvas"], [kind |-> "initCanvas"],
     [kind |-> "joinGame", username |-> ANN, userId |-> U1]}
        \cup (IF Cardinality({k \in DOMAIN canvasDB : HasPrefix(k, PIXELS_PREFIX)})
                    + Cardinality(Busy) < MaxPlaced
              THEN {[kind |-> "placePixel", userId |-> U1, decodable |-> TRUE, x |-> c[1],
                     y |-> c[2], color |-> RED] : c \in {<<1, 2>>, <<3, 4>>, <<100, 4>>}}
              ELSE {})

SendRequests_p3 ==
    {[kind |-> "joinGame", username |-> ANN, userId |-> U1]}
        \cup (IF Cardinality(DOMAIN chatDB) + Cardinality(Busy) < MaxChat
              THEN {[kind |-> "sendMessage", userId |-> id, decodable |-> d,
                     message |-> text] :
                       id \in {<<>>, U1, U2}, d \in BOOLEAN, text \in {<<>>, ChatText}}
              ELSE {})

DeliverCanvas_p3 == Deliver(CanvasRequests_p3)
DeliverSend_p3 == Deliver(SendRequests_p3)
GetWidthStep == \E t \in DOMAIN tasks, getOk \in BOOLEAN : GetWidth_p3(t, getOk)
PutWidthStep == \E t \in DOMAIN tasks, putOk \in BOOLEAN : PutWidth_p3(t, putOk)
GetHeightStep == \E t \in DOMAIN tasks, getOk \in BOOLEAN : GetHeight_p3(t, getOk)
PutHeightStep == \E t \in DOMAIN tasks, putOk \in BOOLEAN : PutHeight_p3(t, putOk)
ListPixelsStep == \E t \in DOMAIN tasks : ListPixels_p3(t)
InitCanvas_p3 == \E t \in DOMAIN tasks, putOk \in BOOLEAN : initCanvas_p3(t, putOk)
InitHeightStep == \E t \in DOMAIN tasks, putOk \in BOOLEAN : InitHeight_p3(t, putOk)
SendMessage_p3 ==
    \E t \in DOMAIN tasks, getOk \in BOOLEAN, nanos \in MilliNanoParts :
        sendMessage_p3(t, getOk, nanos)
SaveMessageStep == \E t \in DOMAIN tasks, putOk \in BOOLEAN : SaveMessage_p3(t, putOk)

\* the canvas of part_003: every handler that writes /canvas
NextCanvas_p3 ==
    DeliverCanvas_p3 \/ JoinGameStep_p3 \/ BeginPlaceStep \/ SavePixelStep \/ SaveUserStep
        \/ GetWidthStep \/ PutWidthStep \/ GetHeightStep \/ PutHeightStep \/ ListPixelsStep
        \/ InitCanvas_p3 \/ InitHeightStep

SpecCanvas_p3 == Init /\ [][NextCanvas_p3]_vars

\* the chat of part_003
NextSend_p3 == DeliverSend_p3 \/ JoinGameStep_p3 \/ SendMessage_p3 \/ SaveMessageStep

SpecSend_p3 == Init /\ [][NextSend_p3]_vars

-----------------------------------------------------------------------------
(* The deduplication guard: what a call leaves recorded                    *)

\* C33: a token accepted by isBatchProcessed / isMessageProcessed is still
\* recorded when the call returns, also when the call evicted entries, so
\* that the next call with the same token reports it as processed.
C33_AcceptedTokenRecorded ==
    [][(IsCall /\ inflight.id # <<>> /\ last' = "accepted")
          => inflight.id \in DOMAIN CalledMapAfter.ids]_vars

-----------------------------------------------------------------------------
(* part_000 onPixelUpdate on a token map that already holds entries        *)

FullMapBatches ==
    {PixelBatch(<<"a">>, <<pixel>>, id, 100) :
        pixel \in {MkPixel(1, 2, RED), MkPixel(3, 4, BLUE)}, id \in {<<>>, B1, B2, B3}}

DeliverFullMap == Deliver(FullMapBatches)

NextFullMap == DeliverFullMap \/ OnPixelUpdate

SpecFullMap == InitDedup /\ [][NextFullMap]_vars

\* C34: onPixelUpdate records the batchId before any pixel is persisted and
\* does not remove it on failure: after a delivery that persisted nothing
\* because its Put failed, the batchId is recorded, so that a redelivery of
\* the same batchId is dropped.
C34_FailedBatchStaysRecorded ==
    [][(/\ inflight.kind = "pixelBatch"
        /\ inflight.batchId # <<>>
        /\ last' = "putFailed"
        /\ canvasDB' = canvasDB)
          => inflight.batchId \in DOMAIN processedBatchIds'.ids]_vars

-----------------------------------------------------------------------------
(* HTTP variant (part_005): sendPixel writes the room's canvas blob,       *)
(* "room:<room>", and publishes the pixel on "pixelupdates"; sendMessage   *)
(* appends to the room's chat list                                         *)

\* request bodies: one that json.Unmarshal rejects, and pixel updates
SendPixelRequests ==
    {[kind |-> "sendPixel", decodable |-> FALSE, room |-> <<>>, pixel |-> MkPixel(1, 2, RED)]}
        \cup {[kind |-> "sendPixel", decodable |-> TRUE, room |-> room,
               pixel |-> MkPixel(c[1], c[2], color)] :
                 room \in {<<>>, <<"a">>}, color \in {RED, BLUE},
                 c \in {<<1, 2>>, <<3, 4>>, <<90, 4>>, <<0 - 1, 2>>}}

\* what the handlers of part_005 do with the canvas they hold (sendPixel
\* 386-395, onGameMessage 227-236): json.Unmarshal, the bounds test and the
\* assignment to canvas[Y][X], which faults outside the parsed grid
PixelOutcome_p5(canvas, pixel) ==
    IF ~Parses(canvas) THEN "parseFailed"
    ELSE IF ~InBounds(pixel.x, pixel.y) THEN "skipped"
    ELSE IF IndexFault(canvas, <<pixel>>) THEN "fault"
    ELSE "put"

\* the answer of sendPixel for an outcome that ends the handler
Status_p5(outcome) ==
    IF outcome = "parseFailed" THEN "500" ELSE IF outcome = "skipped" THEN "200" ELSE "fault"

\* //export sendPixel (part_005), lines 328-371: the body is decoded and the
\* room's canvas is read with db.Get(canvasKey) (371).  `last` is the status
\* of the answer, with "+published" when the pixel was published on
\* "pixelupdates", or "fault" when canvas[pixelUpdate.Y][pixelUpdate.X] is
\* outside the parsed grid (index out of range: a runtime fault).
sendPixel(t, getOk) ==
    /\ inflight.kind = "sendPixel"
    /\ tasks[t].pc = "idle"
    /\ IF ~inflight.decodable
       THEN /\ tasks' = tasks
            /\ last' = "400"
       ELSE LET canvasKey == CanvasKey(EffectiveRoom(inflight.room))
                pixel == inflight.pixel
            IN  IF ~(getOk /\ canvasKey \in DOMAIN blobDB)
                THEN /\ tasks' = [tasks EXCEPT ![t] =
                                     [pc |-> "createRoom", request |-> inflight,
                                      canvasKey |-> canvasKey]]
                     /\ last' = last
                ELSE IF PixelOutcome_p5(blobDB[canvasKey], pixel) = "put"
                THEN /\ tasks' = [tasks EXCEPT ![t] =
                                     [pc |-> "putRoom", request |-> inflight,
                                      canvasKey |-> canvasKey,
                                      canvas |-> SetCell(blobDB[canvasKey], pixel.x, pixel.y,
                                                         pixel.color)]]
                     /\ last' = last
                ELSE /\ tasks' = tasks
                     /\ last' = Status_p5(PixelOutcome_p5(blobDB[canvasKey], pixel))
    /\ inflight' = None
    /\ UNCHANGED <<canvasDB, chatDB, blobDB, processedBatchIds, processedMessageIds, now,
                   usersDB, canvasCache, olderMessages>>

\* sendPixel, lines 372-395: db.Put(canvasKey, canvasData) of the blank canvas
\* (382, its error is dropped), then the bounds test on the blank canvas
CreateRoom_p5(t, createOk) ==
    /\ tasks[t].pc = "createRoom"
    /\ blobDB' = IF createOk THEN DbPut(blobDB, tasks[t].canvasKey, BlankCanvas) ELSE blobDB
    /\ LET pixel == tasks[t].request.pixel
       IN  IF PixelOutcome_p5(BlankCanvas, pixel) = "put"
           THEN /\ tasks' = [tasks EXCEPT ![t] =
                                [pc |-> "putRoom", request |-> tasks[t].request,
                                 canvasKey |-> tasks[t].canvasKey,
                                 canvas |-> SetCell(BlankCanvas, pixel.x, pixel.y,
                                                    pixel.color)]]
                /\ last' = last
           ELSE /\ tasks' = [tasks EXCEPT ![t] = Idle]
                /\ last' = Status_p5(PixelOutcome_p5(BlankCanvas, pixel))
    /\ UNCHANGED <<canvasDB, chatDB, processedBatchIds, processedMessageIds, now, inflight,
                   usersDB, canvasCache, olderMessages>>

\* sendPixel, lines 397-415: db.Put(canvasKey, updatedData) (401) and the
\* publish on "pixelupdates"
PutRoom_p5(t, putOk, channelOk) ==
    /\ tasks[t].pc = "putRoom"
    /\ blobDB' = IF putOk THEN DbPut(blobDB, tasks[t].canvasKey, tasks[t].canvas) ELSE blobDB
    /\ last' = IF ~putOk THEN "500" ELSE IF channelOk THEN "200+published" ELSE "200"
    /\ tasks' = [tasks EXCEPT ![t] = Idle]
    /\ UNCHANGED <<canvasDB, chatDB, processedBatchIds, processedMessageIds, now, inflight,
                   usersDB, canvasCache, olderMessages>>

\* //export sendMessage (part_005), lines 418-482: the body is decoded, the
\* list under "room:<room>" of /chat is read with db.Get(chatKey) (459) and
\* the message is stamped and appended
sendMessage(t, getOk, nanos) ==
    /\ inflight.kind = "sendMessage"
    /\ tasks[t].pc = "idle"
    /\ IF ~inflight.decodable
       THEN /\ tasks' = tasks
            /\ last' = "400"
       ELSE LET message == inflight.message
                chatKey == CanvasKey(EffectiveRoom(message.room))
                messages == IF getOk /\ chatKey \in DOMAIN chatDB THEN chatDB[chatKey]
                            ELSE <<>>
                chatMessage == MkMessage(UnixNanoText(now, nanos), message.userId,
                                         message.username, message.message, now)
            IN  /\ tasks' = [tasks EXCEPT ![t] =
                                [pc |-> "putRoomChat", chatKey |-> chatKey,
                                 messages |-> LastHundred(Append(messages, chatMessage))]]
                /\ last' = last
    /\ inflight' = None
    /\ UNCHANGED <<canvasDB, chatDB, blobDB, processedBatchIds, processedMessageIds, now,
                   usersDB, canvasCache, olderMessages>>

\* sendMessage, lines 484-502: db.Put(chatKey, updatedData) (490) and the
\* publish on "chatmessages"
PutRoomChat_p5(t, putOk, channelOk) ==
    /\ tasks[t].pc = "putRoomChat"
    /\ chatDB' = IF putOk THEN DbPut(chatDB, tasks[t].chatKey, tasks[t].messages) ELSE chatDB
    /\ last' = IF ~putOk THEN "500" ELSE IF channelOk THEN "200+published" ELSE "200"
    /\ tasks' = [tasks EXCEPT ![t] = Idle]
    /\ UNCHANGED <<canvasDB, blobDB, processedBatchIds, processedMessageIds, now, inflight,
                   usersDB, canvasCache, olderMessages>>

\* the number of chat rows stored
ChatLength == IF DOMAIN chatDB = {} THEN 0 ELSE Len(chatDB[CHOOSE k \in DOMAIN chatDB : TRUE])

\* request bodies: one that json.Unmarshal rejects, and chat lines (also
\* with an empty text) while the list and the handlers under way hold fewer
\* than MaxChat
SendMessageRequests ==
    {[kind |-> "sendMessage", decodable |-> FALSE, message |-> <<>>]}
        \cup (IF ChatLength + Cardinality(Busy) < MaxChat
              THEN {[kind |-> "sendMessage", decodable |-> TRUE,
                     message |-> [message |-> text, userId |-> U1, username |-> ANN,
                                  room |-> <<>>]] : text \in {ChatText, <<>>}}
              ELSE {})

SendMessage ==
    \E t \in DOMAIN tasks, getOk \in BOOLEAN, nanos \in NanoParts : sendMessage(t, getOk, nanos)

PutRoomChatStep ==
    \E t \in DOMAIN tasks, putOk, channelOk \in BOOLEAN : PutRoomChat_p5(t, putOk, channelOk)

\* the stores are empty
InitSend_p5 == Init

\* a request is sent when the one before it is answered
DeliverSend_p5 ==
    /\ tasks = NoTasks
    /\ Deliver(SendPixelRequests \cup SendMessageRequests)

SendPixel == \E t \in DOMAIN tasks, getOk \in BOOLEAN : sendPixel(t, getOk)

CreateRoomStep == \E t \in DOMAIN tasks, createOk \in BOOLEAN : CreateRoom_p5(t, createOk)

PutRoomStep ==
    \E t \in DOMAIN tasks, putOk, channelOk \in BOOLEAN : PutRoom_p5(t, putOk, channelOk)

\* the requests handled one after the other
SendPixelAlone == \E getOk \in BOOLEAN : sendPixel(1, getOk)

SendMessageAlone == \E getOk \in BOOLEAN, nanos \in NanoParts : sendMessage(1, getOk, nanos)

NextSend_p5 ==
    DeliverSend_p5 \/ SendPixelAlone \/ CreateRoomStep \/ PutRoomStep \/ SendMessageAlone
        \/ PutRoomChatStep

SpecSend_p5 == InitSend_p5 /\ [][NextSend_p5]_vars

\* two requests at a time: the Get of one can fall between the Get and the
\* Put of the other
ConcRequests_p5 ==
    {[kind |-> "sendPixel", decodable |-> TRUE, room |-> <<"a">>, pixel |-> pixel] :
        pixel \in {MkPixel(1, 2, RED), MkPixel(3, 4, BLUE), MkPixel(5, 5, BLUE)}}
        \cup (IF ChatLength + Cardinality(Busy) < MaxChat + 1
              THEN {[kind |-> "sendMessage", decodable |-> TRUE,
                     message |-> [message |-> ChatText, userId |-> id, username |-> ANN,
                                  room |-> <<>>]] : id \in {U1, U2}}
              ELSE {})

DeliverSendConc_p5 == Deliver(ConcRequests_p5)

NextSendConc_p5 ==
    DeliverSendConc_p5 \/ SendPixel \/ CreateRoomStep \/ PutRoomStep \/ SendMessage
        \/ PutRoomChatStep

SpecSendConc_p5 == Init /\ [][NextSendConc_p5]_vars

\* a sendPixel request that fails validation
InvalidSendPixel(request) ==
    ~request.decodable \/ ~InBounds(request.pixel.x, request.pixel.y)

\* C26: an HTTP request that fails validation (out-of-range pixel
\* coordinates, an undecodable body) is answered with a 4xx status, persists
\* nothing and publishes nothing.  Stated for part_005's sendPixel: no step
\* of the handler of such a request changes the canvas store, and the
\* handler ends with status 400.
C26_InvalidRequestRejected ==
    [][/\ (inflight.kind = "sendPixel" /\ InvalidSendPixel(inflight) /\ inflight' = None)
          => (blobDB' = blobDB /\ (tasks' = tasks => last' = "400"))
       /\ \A t \in DOMAIN tasks :
             (/\ tasks[t].pc \in {"createRoom", "putRoom"}
              /\ InvalidSendPixel(tasks[t].request)
              /\ tasks'[t] # tasks[t])
                => (blobDB' = blobDB /\ (tasks'[t].pc = "idle" => last' = "400"))]_vars

-----------------------------------------------------------------------------
(* part_005 onGameMessage: one handler for the payloads of "game-<room>".  *)
(* A payload is a JSON object, here a record of the fields it has.  The     *)
(* handler is taken to be subscribed to the channel it publishes to, so     *)
(* what it publishes is delivered to it.                                    *)

\* the bytes are not a JSON object
GARBAGE == [garbage |-> TRUE]

\* json.Unmarshal into a struct: a field the object lacks keeps its zero value
Field(payload, name, zero) == IF name \in DOMAIN payload THEN payload[name] ELSE zero

\* json.Unmarshal(data, &pixelUpdate), lines 188-198
DecodePixelUpdate(payload) ==
    [x |-> Field(payload, "x", 0), y |-> Field(payload, "y", 0),
     color |-> Field(payload, "color", <<>>), userId |-> Field(payload, "userId", <<>>),
     username |-> Field(payload, "username", <<>>), room |-> Field(payload, "room", <<>>)]

\* json.Unmarshal(data, &message), lines 258-264
DecodeChat(payload) ==
    [message |-> Field(payload, "message", <<>>), userId |-> Field(payload, "userId", <<>>),
     username |-> Field(payload, "username", <<>>), room |-> Field(payload, "room", <<>>)]

\* a payload on the channel; hop tells a delivery from the one before it: it
\* is the parity of the number of publishes of the handler behind the payload
GameMessage(payload, hop) == [kind |-> "gameMessage", payload |-> payload, hop |-> hop]

\* //export onGameMessage (part_005 176-325) up to its db.Get: the payload is
\* decoded as a pixel update (188-198) and the room's canvas is read (212), or
\* as a chat message (258-264) and the room's list is read (279), stamped and
\* appended to (290-303)
onGameMessage(t, getOk, nanos) ==
    /\ inflight.kind = "gameMessage"
    /\ tasks[t].pc = "idle"
    /\ LET payload == inflight.payload
           pixelUpdate == DecodePixelUpdate(payload)
           message == DecodeChat(payload)
       IN  IF payload # GARBAGE /\ pixelUpdate.x >= 0 /\ pixelUpdate.y >= 0
           THEN LET canvasKey == CanvasKey(EffectiveRoom(pixelUpdate.room))
                IN  IF ~(getOk /\ canvasKey \in DOMAIN blobDB)
                    THEN /\ tasks' = [tasks EXCEPT ![t] =
                                         [pc |-> "createGame", request |-> inflight,
                                          canvasKey |-> canvasKey]]
                         /\ last' = last
                    ELSE IF PixelOutcome_p5(blobDB[canvasKey], pixelUpdate) = "put"
                    THEN /\ tasks' = [tasks EXCEPT ![t] =
                                         [pc |-> "putGame", request |-> inflight,
                                          canvasKey |-> canvasKey,
                                          canvas |-> SetCell(blobDB[canvasKey], pixelUpdate.x,
                                                             pixelUpdate.y, pixelUpdate.color)]]
                         /\ last' = last
                    ELSE /\ tasks' = tasks
                         /\ last' = PixelOutcome_p5(blobDB[canvasKey], pixelUpdate)
           ELSE IF payload # GARBAGE /\ message.message # <<>>
           THEN LET chatKey == CanvasKey(EffectiveRoom(message.room))
                    messages == IF getOk /\ chatKey \in DOMAIN chatDB THEN chatDB[chatKey]
                                ELSE <<>>
                    chatMessage == MkMessage(UnixNanoText(now, nanos), message.userId,
                                             message.username, message.message, now)
                IN  /\ tasks' = [tasks EXCEPT ![t] =
                                    [pc |-> "putGameChat", request |-> inflight,
                                     chatKey |-> chatKey, chatMessage |-> chatMessage,
                                     messages |-> LastHundred(Append(messages, chatMessage))]]
                    /\ last' = last
           ELSE /\ tasks' = tasks
                /\ last' = "ignored"
    /\ inflight' = None
    /\ UNCHANGED <<canvasDB, chatDB, blobDB, processedBatchIds, processedMessageIds, now,
                   usersDB, canvasCache, olderMessages>>

\* onGameMessage, lines 213-236: db.Put(canvasKey, canvasData) of the blank
\* canvas (223, its error is dropped), then the bounds test on it
CreateGame_p5(t, createOk) ==
    /\ tasks[t].pc = "createGame"
    /\ blobDB' = IF createOk THEN DbPut(blobDB, tasks[t].canvasKey, BlankCanvas) ELSE blobDB
    /\ LET pixelUpdate == DecodePixelUpdate(tasks[t].request.payload)
       IN  IF PixelOutcome_p5(BlankCanvas, pixelUpdate) = "put"
           THEN /\ tasks' = [tasks EXCEPT ![t] =
                                [pc |-> "putGame", request |-> tasks[t].request,
                                 canvasKey |-> tasks[t].canvasKey,
                                 canvas |-> SetCell(BlankCanvas, pixelUpdate.x, pixelUpdate.y,
                                                    pixelUpdate.color)]]
                /\ last' = last
           ELSE /\ tasks' = [tasks EXCEPT ![t] = Idle]
                /\ last' = PixelOutcome_p5(BlankCanvas, pixelUpdate)
    /\ UNCHANGED <<canvasDB, chatDB, processedBatchIds, processedMessageIds, now, inflight,
                   usersDB, canvasCache, olderMessages>>

\* onGameMessage, lines 238-245: db.Put(canvasKey, updatedData) (242)
PutGame_p5(t, putOk) ==
    /\ tasks[t].pc = "putGame"
    /\ blobDB' = IF putOk THEN DbPut(blobDB, tasks[t].canvasKey, tasks[t].canvas) ELSE blobDB
    /\ IF putOk
       THEN /\ tasks' = [tasks EXCEPT ![t] =
                            [pc |-> "publishGame", request |-> tasks[t].request,
                             published |-> DecodePixelUpdate(tasks[t].request.payload),
                             stored |-> "pixelStored"]]
            /\ last' = last
       ELSE /\ tasks' = [tasks EXCEPT ![t] = Idle]
            /\ last' = "putFailed"
    /\ UNCHANGED <<canvasDB, chatDB, processedBatchIds, processedMessageIds, now, inflight,
                   usersDB, canvasCache, olderMessages>>

\* onGameMessage, lines 305-313: db.Put(chatKey, updatedData) (310)
PutGameChat_p5(t, putOk) ==
    /\ tasks[t].pc = "putGameChat"
    /\ chatDB' = IF putOk THEN DbPut(chatDB, tasks[t].chatKey, tasks[t].messages) ELSE chatDB
    /\ IF putOk
       THEN /\ tasks' = [tasks EXCEPT ![t] =
                            [pc |-> "publishGame", request |-> tasks[t].request,
                             published |-> tasks[t].chatMessage, stored |-> "chatStored"]]
            /\ last' = last
       ELSE /\ tasks' = [tasks EXCEPT ![t] = Idle]
            /\ last' = "putFailed"
    /\ UNCHANGED <<canvasDB, blobDB, processedBatchIds, processedMessageIds, now, inflight,
                   usersDB, canvasCache, olderMessages>>

\* onGameMessage, lines 247-252 and 315-320: pubsub.Channel("game-" + room)
\* and gameChannel.Publish; the channel takes the payload when it is free
PublishGame_p5(t, channelOk) ==
    /\ tasks[t].pc = "publishGame"
    /\ IF channelOk
       THEN /\ inflight = None
            /\ inflight' = GameMessage(tasks[t].published, 1 - tasks[t].request.hop)
            /\ last' = IF tasks[t].stored = "pixelStored" THEN "pixelPublished"
                       ELSE "chatPublished"
       ELSE /\ inflight' = inflight
            /\ last' = tasks[t].stored
    /\ tasks' = [tasks EXCEPT ![t] = Idle]
    /\ UNCHANGED <<canvasDB, chatDB, blobDB, processedBatchIds, processedMessageIds, now,
                   usersDB, canvasCache, olderMessages>>

\* payloads as clients send them: pixels, chat lines, a chat line with a
\* negative x, and bytes that are no JSON object
GamePayloads ==
    {[x |-> c[1], y |-> c[2], color |-> RED, userId |-> U1, username |-> ANN, room |-> <<>>] :
        c \in {<<1, 2>>, <<90, 4>>, <<0 - 1, 2>>}}
        \cup {[message |-> ChatText, userId |-> U1, username |-> ANN, room |-> <<>>],
              [user |-> ANN, online |-> TRUE, id |-> U1],
              GARBAGE}
        \cup (IF ChatLength + Cardinality(Busy) < MaxChat
              THEN {[x |-> 0 - 1, message |-> ChatText, userId |-> U1, username |-> ANN]}
              ELSE {})

DeliverGame == Deliver({GameMessage(p, 0) : p \in GamePayloads} \cup SendMessageRequests)

OnGameMessage ==
    \E t \in DOMAIN tasks, getOk \in BOOLEAN, nanos \in NanoParts : onGameMessage(t, getOk, nanos)

CreateGameStep == \E t \in DOMAIN tasks, createOk \in BOOLEAN : CreateGame_p5(t, createOk)
PutGameStep == \E t \in DOMAIN tasks, putOk \in BOOLEAN : PutGame_p5(t, putOk)
PutGameChatStep == \E t \in DOMAIN tasks, putOk \in BOOLEAN : PutGameChat_p5(t, putOk)
PublishGameStep == \E t \in DOMAIN tasks, channelOk \in BOOLEAN : PublishGame_p5(t, channelOk)

\* the steps of onGameMessage after its db.Get
GameSteps == CreateGameStep \/ PutGameStep \/ PutGameChatStep \/ PublishGameStep

\* the payloads handled one after the other
OnGameMessageAlone ==
    \E getOk \in BOOLEAN, nanos \in NanoParts : onGameMessage(1, getOk, nanos)

NextGame ==
    DeliverGame \/ OnGameMessageAlone \/ GameSteps \/ SendMessageAlone \/ PutRoomChatStep

SpecGame == Init /\ [][NextGame]_vars

\* two payloads at a time
ConcPayloads_p5 ==
    {[x |-> c[1], y |-> c[2], color |-> c[3], userId |-> U1, username |-> ANN, room |-> <<>>] :
        c \in {<<1, 2, RED>>, <<3, 4, BLUE>>, <<5, 5, BLUE>>}}
        \cup (IF ChatLength + Cardinality(Busy) < MaxChat + 1
              THEN {[x |-> 0 - 1, message |-> ChatText, userId |-> id, username |-> ANN] :
                       id \in {U1, U2}}
              ELSE {})

DeliverGameConc == Deliver({GameMessage(p, 0) : p \in ConcPayloads_p5})

\* a failing channel lookup only: the handler is not subscribed to its channel
PublishDropped == \E t \in DOMAIN tasks : PublishGame_p5(t, FALSE)

NextGameConc ==
    DeliverGameConc \/ OnGameMessage \/ CreateGameStep \/ PutGameStep \/ PutGameChatStep
        \/ PublishDropped

SpecGameConc == Init /\ [][NextGameConc]_vars

\* a chat payload: a JSON object with a non-empty message and no x / y
IsChatPayload(payload) ==
    /\ payload # GARBAGE
    /\ Field(payload, "message", <<>>) # <<>>
    /\ "x" \notin DOMAIN payload
    /\ "y" \notin DOMAIN payload

\* C35: onGameMessage handles a chat payload as chat and never as a pixel
\* update: no step of its handler changes the canvas, and it is not
\* published as a pixel.
C35_ChatNotRoutedAsPixel ==
    [][/\ (inflight.kind = "gameMessage" /\ IsChatPayload(inflight.payload)
             /\ inflight' = None)
          => (blobDB' = blobDB
                /\ \A t \in DOMAIN tasks : tasks'[t].pc \in {"createGame", "putGame"}
                                                => tasks'[t] = tasks[t])
       /\ \A t \in DOMAIN tasks :
             (/\ tasks[t].pc \in {"createGame", "putGame", "putGameChat", "publishGame"}
              /\ IsChatPayload(tasks[t].request.payload)
              /\ tasks'[t] # tasks[t])
                => (blobDB' = blobDB /\ last' \notin {"pixelPublished", "pixelStored"})]_vars

\* one message is sent to the channel while no handler runs
DeliverChain ==
    /\ tasks = NoTasks
    /\ Deliver({GameMessage(p, 0) : p \in GamePayloads})

NextChain == DeliverChain \/ OnGameMessage \/ GameSteps

\* every payload on the channel is handled in the end, and a handler that
\* has started runs to its end
FairSpecGame ==
    /\ Init
    /\ [][NextChain]_vars
    /\ WF_vars(OnGameMessage)
    /\ WF_vars(GameSteps)

\* C36: with the handler subscribed to the channel it publishes to, one
\* message sent to onGameMessage leads to finitely many invocations: the
\* channel becomes empty again and no handler runs.
C36_PublishChainEnds ==
    (inflight.kind = "gameMessage") ~> (inflight = None /\ tasks = NoTasks)

-----------------------------------------------------------------------------
(* part_004 onPixelUpdate: what a failing Get does to a stored canvas      *)

\* the pixels of the deliveries being handled paint cell c of room's canvas
\* with this colour
PaintedBy(key, c, color) ==
    \E t \in DOMAIN tasks :
        /\ tasks[t].pc = "update"
        /\ CanvasKey(tasks[t].room) = key
        /\ \E i \in DOMAIN tasks[t].pixels :
              /\ <<tasks[t].pixels[i].x, tasks[t].pixels[i].y>> = c
              /\ tasks[t].pixels[i].color = color

\* C37: a failing store Get during a pixel write never destroys existing
\* content: every cell written before keeps its colour, unless a pixel of the
\* write itself sets it.  (A grid that clearCanvas deletes is not looked at.)
C37_GetFailureKeepsContent ==
    [][\A key \in (DOMAIN blobDB) \cap (DOMAIN blobDB') : \A c \in DOMAIN blobDB[key] :
          \/ At(blobDB'[key], c[1], c[2]) = At(blobDB[key], c[1], c[2])
          \/ PaintedBy(key, c, At(blobDB'[key], c[1], c[2]))]_vars

-----------------------------------------------------------------------------
(* part_001 onPixelUpdate: the test of the user's presence                 *)

DeliverGate_p1 == Deliver(UserUpdates \cup PixelsWithinBound)

NextGate_p1 == DeliverGate_p1 \/ OnUserUpdate_p1 \/ OnPixelUpdate_p1 \/ Advance

SpecGate_p1 == InitActivity_p1 /\ [][NextGate_p1]_vars

\* a user record exists for the id and now - lastSeen <= 30000 ms
IsPresent(userId) ==
    userId \in DOMAIN usersDB /\ now - usersDB[userId].lastSeen <= UserTimeout

\* C38: onPixelUpdate persists a pixel only if a user record exists for
\* pixel.userId and now - lastSeen <= 30000 ms; a pixel from an unknown or
\* offline user changes neither the stored canvas, the cached grid nor any
\* user record: its handler ends at the test of the user, before the steps
\* that write.
C38_OnlyPresentUsersPaint ==
    [][(inflight.kind = "pixel" /\ inflight' = None /\ ~IsPresent(inflight.pixel.userId))
          => (/\ tasks' = tasks
              /\ blobDB' = blobDB /\ canvasCache' = canvasCache /\ usersDB' = usersDB)]_vars

\* a pixel of a user who went offline was turned away after pixels of the
\* user had been stored
C38_Witness ==
    /\ last = "offline"
    /\ canvasCache.valid
    /\ \E id \in DOMAIN usersDB : usersDB[id].pixelsPlaced > 0

-----------------------------------------------------------------------------
(* part_001 onPixelUpdate as steps: the counter of placed pixels           *)

\* C39: every persisted pixel increments the user's stored pixelsPlaced
\* exactly once and no increment is lost: when a task that has stored its
\* pixel leaves the step that saves the user, the stored counter is one more
\* than before, also with two placements of the user under way or with a
\* failing user save.
C39_EveryPixelCounted ==
    [][\A t \in DOMAIN tasks :
          (tasks[t].pc = "saveUser" /\ tasks'[t].pc = "patch")
              => /\ tasks[t].user.id \in DOMAIN usersDB'
                 /\ usersDB'[tasks[t].user.id].pixelsPlaced
                        = usersDB[tasks[t].user.id].pixelsPlaced + 1]_vars

-----------------------------------------------------------------------------
(* part_003 placePixel: the cooldown                                       *)

\* C40: between two accepted placePixel requests of a user at least 1000 ms
\* elapse, also when the requests are processed concurrently: when a request
\* is answered 200, the cooldown stored for its user, set by the accepted
\* request before it, has ended.
C40_CooldownBetweenAccepted ==
    [][\A t \in DOMAIN tasks :
          (tasks[t].pc = "saveUser" /\ tasks'[t].pc = "idle" /\ last' = "200")
              => (tasks[t].user.id \in DOMAIN usersDB
                    => usersDB[tasks[t].user.id].cooldownEnds <= now)]_vars

====
